---------------------------- MODULE Spec2Model ----------------------------
(***************************************************************************)
(* A model of the query analysis pipeline of the SQL tutoring system       *)
(* (src/sql_tutor_system.py): OntologyManager's learning-path planner and  *)
(* SQLTutorEngine.analyze_query with its checks and the sqlite3 sandbox.   *)
(*                                                                         *)
(* Text is a sequence of one-character strings, so that Python's substring *)
(* tests, find, strip, split and the regular expressions of the source are *)
(* computed character by character, as the source computes them.  Python's *)
(* 0-based positions are 1-based here, and find's -1 is 0.                 *)
(***************************************************************************)
EXTENDS Integers, Sequences, FiniteSets, TLC

VARIABLES
    schema,            \* SQLTutorEngine.schema: [key, columns] per table, in dict order
    ontology_error_patterns, \* OntologyManager.error_patterns
    error_patterns,    \* SQLTutorEngine.error_patterns: key -> [type, severity]
    feedback_messages, \* OntologyManager.feedback_messages, in dict order
    sql_concepts,      \* OntologyManager.sql_concepts: key -> [difficulty, prerequisite]
    hash_order,        \* iteration order of a Python set of str in this process
    db,                \* rows of the in-memory sqlite3 database, per table
    sent,              \* statements handed to cursor.execute so far
    calls,             \* number of calls made on the engine or the planner
    pc,                \* "idle" | "plan" (in suggest_learning_path's loop over
                       \* concepts_needed) | "walk" (in get_concept_prerequisites)
    query,             \* query_text of the call in progress or last made
    last_call,         \* how the last analyze_query call ended, and what it left
    first_report,      \* the first Report returned, with its query_text
    cursor,            \* self.cursor: the statement it executed last, and whether
                       \* its rows have been fetched
    in_flight,         \* the analyze_query calls that threads are running
    current_errors,    \* suggest_learning_path: its argument
    concepts_needed,   \* suggest_learning_path: concepts_needed
    remaining,         \* suggest_learning_path: the concepts its for loop has yet to take
    all_concepts,      \* suggest_learning_path: all_concepts
    current_concept,   \* get_concept_prerequisites: current_concept
    prerequisites,     \* get_concept_prerequisites: prerequisites
    learning_path      \* suggest_learning_path: the returned list

vars == <<schema, ontology_error_patterns, error_patterns, feedback_messages,
          sql_concepts, hash_order, db, sent, calls, pc, query, last_call,
          first_report, cursor, in_flight, current_errors, concepts_needed, remaining, all_concepts,
          current_concept, prerequisites, learning_path>>

kb_vars == <<schema, ontology_error_patterns, error_patterns, feedback_messages,
            sql_concepts, hash_order>>

engine_vars == <<db, sent, calls, query, last_call, first_report, cursor, in_flight>>

plan_vars == <<current_errors, concepts_needed, remaining, all_concepts,
               current_concept, prerequisites, learning_path>>

-----------------------------------------------------------------------------
(* Characters and Python's str operations.                                 *)

LowerChars == <<"a","b","c","d","e","f","g","h","i","j","k","l","m",
                "n","o","p","q","r","s","t","u","v","w","x","y","z">>

UpperChars == <<"A","B","C","D","E","F","G","H","I","J","K","L","M",
                "N","O","P","Q","R","S","T","U","V","W","X","Y","Z">>

Digits == {"0","1","2","3","4","5","6","7","8","9"}

WhiteSpace == {" ", "\t", "\n"}

Letters == {LowerChars[i] : i \in 1..26} \cup {UpperChars[i] : i \in 1..26}

WordChars == Letters \cup Digits \cup {"_"}

IsLetter(c) == c \in Letters

\* \w of Python's re for the ASCII range
IsWordChar(c) == c \in WordChars

UpperOf == [c \in {LowerChars[i] : i \in 1..26} |->
               UpperChars[CHOOSE i \in 1..26 : c = LowerChars[i]]]

LowerOf == [c \in {UpperChars[i] : i \in 1..26} |->
               LowerChars[CHOOSE i \in 1..26 : c = UpperChars[i]]]

UpperChar(c) == IF c \in DOMAIN UpperOf THEN UpperOf[c] ELSE c

LowerChar(c) == IF c \in DOMAIN LowerOf THEN LowerOf[c] ELSE c

\* str.upper() and str.lower()
Upper(s) == [i \in 1..Len(s) |-> UpperChar(s[i])]

Lower(s) == [i \in 1..Len(s) |-> LowerChar(s[i])]

SetMin(S) == CHOOSE x \in S : \A y \in S : x <= y

SetMax(S) == CHOOSE x \in S : \A y \in S : y <= x

\* sub occurs in s at position i
MatchAt(s, sub, i) ==
    /\ i >= 1
    /\ i + Len(sub) - 1 <= Len(s)
    /\ \A k \in 1..Len(sub) : s[i + k - 1] = sub[k]

\* s.find(sub, start): the first position >= start where sub occurs, or 0
Find(s, sub, start) ==
    LET hits == {i \in start..(Len(s) - Len(sub) + 1) : MatchAt(s, sub, i)}
    IN  IF hits = {} THEN 0 ELSE SetMin(hits)

\* sub in s
Contains(s, sub) == \E i \in 1..(Len(s) - Len(sub) + 1) : MatchAt(s, sub, i)

\* s.startswith(p)
StartsWith(s, p) == MatchAt(s, p, 1)

\* s.strip()
Strip(s) ==
    LET keep == {i \in 1..Len(s) : s[i] \notin WhiteSpace}
    IN  IF keep = {} THEN <<>> ELSE SubSeq(s, SetMin(keep), SetMax(keep))

\* s.split(sep) for a one-character sep: the parts, empty ones included
SplitOn(s, sep) ==
    LET cuts  == {i \in 1..Len(s) : s[i] = sep}
        marks == {0} \cup cuts \cup {Len(s) + 1}
        nth(S, n) == CHOOSE x \in S : Cardinality({y \in S : y < x}) = n - 1
    IN  [n \in 1..(Cardinality(cuts) + 1) |->
            SubSeq(s, nth(marks, n) + 1, nth(marks, n + 1) - 1)]

\* s.split(): the maximal runs of non-whitespace characters
SplitWords(s) ==
    LET starts == {i \in 1..Len(s) :
                     /\ s[i] \notin WhiteSpace
                     /\ (i = 1 \/ s[i - 1] \in WhiteSpace)}
        stop(i) == SetMin({j \in i..Len(s) :
                     j = Len(s) \/ s[j + 1] \in WhiteSpace})
        nth(n)  == CHOOSE x \in starts : Cardinality({y \in starts : y < x}) = n - 1
    IN  [n \in 1..Cardinality(starts) |-> SubSeq(s, nth(n), stop(nth(n)))]

\* s.isdigit()
IsDigitStr(s) == Len(s) > 0 /\ \A i \in 1..Len(s) : s[i] \in Digits

\* re.findall(r'\b[a-zA-Z_][a-zA-Z0-9_]*\b', s): the maximal runs of word
\* characters that start with a letter or an underscore
FindWords(s) ==
    LET starts == {i \in 1..Len(s) :
                     /\ IsWordChar(s[i])
                     /\ (i = 1 \/ ~IsWordChar(s[i - 1]))}
        stop(i) == SetMin({j \in i..Len(s) :
                     j = Len(s) \/ ~IsWordChar(s[j + 1])})
        good    == {i \in starts : s[i] \notin Digits}
        nth(n)  == CHOOSE x \in good : Cardinality({y \in good : y < x}) = n - 1
    IN  [n \in 1..Cardinality(good) |-> SubSeq(s, nth(n), stop(nth(n)))]

\* the members of a list, as a set
Range(f) == {f[i] : i \in DOMAIN f}

-----------------------------------------------------------------------------
(* SQLTutorEngine: the knowledge the checks read.                          *)

kwSELECT == <<"S","E","L","E","C","T">>

kwFROM == <<"F","R","O","M">>

kwWHERE == <<"W","H","E","R","E">>

kwGROUP_BY == <<"G","R","O","U","P"," ","B","Y">>

kwHAVING == <<"H","A","V","I","N","G">>

kwORDER_BY == <<"O","R","D","E","R"," ","B","Y">>

kwLIMIT == <<"L","I","M","I","T">>

kwJOIN == <<"J","O","I","N">>

kwON == <<"O","N">>

kwAS == <<"A","S">>


kwDELETE == <<"D","E","L","E","T","E">>

\* self.aggregate_functions
aggregate_functions ==
    << <<"C","O","U","N","T">>, <<"S","U","M">>, <<"A","V","G">>,
       <<"M","I","N">>, <<"M","A","X">> >>

\* self.sql_keywords
sql_keywords ==
    << kwSELECT, kwFROM, kwWHERE, kwGROUP_BY, kwHAVING, kwORDER_BY, kwJOIN,
       <<"I","N","N","E","R">>, <<"L","E","F","T">>, <<"R","I","G","H","T">>,
       kwON, <<"A","N","D">>, <<"O","R">>, <<"N","O","T">>, kwAS >>

\* excluded_keywords of _extract_columns_from_select
excluded_keywords ==
    sql_keywords \o
    << kwFROM, kwWHERE, <<"G","R","O","U","P">>, kwHAVING, <<"O","R","D","E","R">>,
       <<"B","Y">>, kwJOIN, kwON, <<"I","N","N","E","R">>, <<"L","E","F","T">>,
       <<"R","I","G","H","T">>, <<"O","U","T","E","R">>, kwAS >>

\* the join-type words _extract_table_names filters out
join_type_keywords ==
    { <<"I","N","N","E","R">>, <<"L","E","F","T">>, <<"R","I","G","H","T">>,
      <<"F","U","L","L">> }

\* destructive_keywords of _try_execute_query
destructive_keywords ==
    << <<"D","R","O","P">>, kwDELETE, <<"U","P","D","A","T","E">>,
       <<"I","N","S","E","R","T">>, <<"A","L","T","E","R">>,
       <<"C","R","E","A","T","E">>, <<"T","R","U","N","C","A","T","E">> >>

\* the clause list of _check_clause_order, which is also its expected_order
clause_keywords ==
    << kwSELECT, kwFROM, kwWHERE, kwGROUP_BY, kwHAVING, kwORDER_BY >>

-----------------------------------------------------------------------------
(* sqlparse.parse(query_text)[0] and str(parsed).                          *)

\* str(sqlparse.parse(text)[0]): the first statement, which ends with the
\* first semicolon and the whitespace that follows it
parsed_str(text) ==
    LET semi == Find(text, <<";">>, 1)
        rest == {j \in (semi + 1)..Len(text) : text[j] \notin WhiteSpace}
    IN  IF semi = 0 THEN text
        ELSE IF rest = {} THEN text
        ELSE SubSeq(text, 1, SetMin(rest) - 1)

-----------------------------------------------------------------------------
(* The extractors of SQLTutorEngine.  An extractor that can raise returns  *)
(* [raised, value]: raised says that Python's IndexError left it.          *)

\* the end of a clause that starts at `start`: the first of `keywords` found
\* from there on, or the end of the text (the position after the last one)
clause_end(query_str, start, keywords) ==
    LET found == {Find(query_str, keywords[k], start) : k \in DOMAIN keywords} \ {0}
    IN  IF found = {} THEN Len(query_str) + 1 ELSE SetMin(found)

\* part.strip().split()[0] of every part of a comma-separated clause
first_words(clause) ==
    LET parts == SplitOn(clause, ",")
    IN  [raised |-> \E i \in DOMAIN parts : SplitWords(Strip(parts[i])) = <<>>,
         value  |-> [i \in DOMAIN parts |->
                        IF SplitWords(Strip(parts[i])) = <<>> THEN <<>>
                        ELSE SplitWords(Strip(parts[i]))[1]]]

RECURSIVE join_tables(_, _)
\* the while loop of _extract_table_names, from join_pos on
join_tables(query_str, join_pos) ==
    IF join_pos = 0 THEN [raised |-> FALSE, value |-> <<>>]
    ELSE LET join_end == Find(query_str, kwON, join_pos)
             span     == SplitWords(Strip(SubSeq(query_str, join_pos + 4, join_end - 1)))
             rest     == join_tables(query_str, Find(query_str, kwJOIN, join_pos + 1))
         IN  IF join_end = 0 THEN [raised |-> FALSE, value |-> <<>>]
             ELSE IF span = <<>> THEN [raised |-> TRUE, value |-> <<>>]
             ELSE [raised |-> rest.raised, value |-> <<span[1]>> \o rest.value]

\* _extract_table_names(parsed)
extract_table_names(parsed) ==
    LET query_str   == Upper(parsed)
        from_start  == Find(query_str, kwFROM, 1)
        from_end    == clause_end(query_str, from_start,
                           <<kwWHERE, kwGROUP_BY, kwHAVING, kwORDER_BY, kwJOIN>>)
        from_clause == Strip(SubSeq(query_str, from_start + 4, from_end - 1))
        from_tables == IF from_start = 0 THEN [raised |-> FALSE, value |-> <<>>]
                       ELSE first_words(from_clause)
        joined      == join_tables(query_str, Find(query_str, kwJOIN, 1))
        tables      == from_tables.value \o joined.value
    IN  [raised |-> from_tables.raised \/ joined.raised,
         value  |-> SelectSeq(tables,
                        LAMBDA tbl : tbl # <<>> /\ Upper(tbl) \notin join_type_keywords)]

\* _extract_select_clause(parsed)
extract_select_clause(parsed) ==
    LET query_str    == Upper(parsed)
        select_start == Find(query_str, kwSELECT, 1)
        from_start   == Find(query_str, kwFROM, select_start)
    IN  IF select_start = 0 THEN <<>>
        ELSE IF from_start = 0 THEN SubSeq(query_str, select_start, Len(query_str))
        ELSE SubSeq(query_str, select_start, from_start - 1)

\* _extract_group_by_columns(parsed)
extract_group_by_columns(parsed) ==
    LET query_str       == Upper(parsed)
        group_by_start  == Find(query_str, kwGROUP_BY, 1)
        group_by_end    == clause_end(query_str, group_by_start,
                               <<kwHAVING, kwORDER_BY, kwLIMIT>>)
        group_by_clause == Strip(SubSeq(query_str, group_by_start + 8, group_by_end - 1))
        columns         == first_words(group_by_clause)
    IN  IF group_by_start = 0 THEN [raised |-> FALSE, value |-> <<>>]
        ELSE [raised |-> columns.raised,
              value  |-> SelectSeq(columns.value,
                             LAMBDA column : column # <<>> /\ column \notin Range(sql_keywords))]

\* _extract_all_columns_from_select(select_clause)
extract_all_columns_from_select(select_clause) ==
    SelectSeq(FindWords(select_clause),
        LAMBDA c : Upper(c) \notin (Range(sql_keywords) \cup {kwAS}) /\ ~IsDigitStr(c))

\* where a call "func\s*\(...\)" that starts at i ends: the position of the
\* first ")" after its "(", or 0 when no call of func starts at i
call_end(s, func, i) ==
    IF ~MatchAt(s, func, i) THEN 0
    ELSE LET after == {j \in (i + Len(func))..Len(s) : s[j] \notin WhiteSpace}
             open  == IF after = {} THEN 0 ELSE SetMin(after)
         IN  IF open = 0 THEN 0
             ELSE IF s[open] # "(" THEN 0
             ELSE Find(s, <<")">>, open + 1)

RECURSIVE remove_calls(_, _, _)
\* re.sub(rf"{func}\s*\(\s*[^)]*\s*\)", '', s), for the matches from `start` on
remove_calls(s, func, start) ==
    LET hits == {i \in start..Len(s) : call_end(s, func, i) # 0}
    IN  IF hits = {} THEN s
        ELSE LET i == SetMin(hits)
             IN  remove_calls(SubSeq(s, 1, i - 1) \o SubSeq(s, call_end(s, func, i) + 1, Len(s)),
                              func, i)

RECURSIVE remove_all_calls(_, _)
\* the loop over self.aggregate_functions around that re.sub
remove_all_calls(s, k) ==
    IF k > Len(aggregate_functions) THEN s
    ELSE remove_all_calls(remove_calls(s, aggregate_functions[k], 1), k + 1)

\* where an alias "\bAS\s+[a-zA-Z_][a-zA-Z0-9_]*" that starts at i ends, or 0
alias_end(s, i) ==
    IF ~(MatchAt(s, kwAS, i) /\ (i = 1 \/ ~IsWordChar(s[i - 1]))) THEN 0
    ELSE LET after == {j \in (i + 2)..Len(s) : s[j] \notin WhiteSpace}
             name  == IF after = {} THEN 0 ELSE SetMin(after)
         IN  IF name = 0 \/ name = i + 2 THEN 0
             ELSE IF ~(IsLetter(s[name]) \/ s[name] = "_") THEN 0
             ELSE SetMin({j \in name..Len(s) : j = Len(s) \/ ~IsWordChar(s[j + 1])})

RECURSIVE remove_aliases(_, _)
\* re.sub(r'\bAS\s+[a-zA-Z_][a-zA-Z0-9_]*', '', s), for the matches from `start` on
remove_aliases(s, start) ==
    LET hits == {i \in start..Len(s) : alias_end(s, i) # 0}
    IN  IF hits = {} THEN s
        ELSE LET i == SetMin(hits)
             IN  remove_aliases(SubSeq(s, 1, i - 1) \o SubSeq(s, alias_end(s, i) + 1, Len(s)), i)

\* _extract_columns_from_select(select_clause)
extract_columns_from_select(select_clause) ==
    LET temp_clause == remove_aliases(remove_all_calls(Upper(select_clause), 1), 1)
    IN  SelectSeq(FindWords(temp_clause),
            LAMBDA w : Upper(w) \notin Range(excluded_keywords) /\ ~IsDigitStr(w))

\* re.search(rf"{func}\s*\([^)]*{re.escape(col)}[^)]*\)", select_clause, re.IGNORECASE)
col_in_call(select_clause, func, col) ==
    LET s == Upper(select_clause)
    IN  \E i \in 1..Len(s) :
            LET close == call_end(s, func, i)
                open  == SetMin({j \in (i + Len(func))..Len(s) : s[j] \notin WhiteSpace})
            IN  close # 0 /\ Contains(SubSeq(s, open + 1, close - 1), Upper(col))

-----------------------------------------------------------------------------
(* Findings and the error patterns.  A finding keeps the fields the        *)
(* pipeline reads (type, severity) and what tells two findings apart: the  *)
(* name of the check it comes from and the variable parts of its message.  *)

tySYNTAX_ERROR == <<"S","Y","N","T","A","X","_","E","R","R","O","R">>

tySEMANTIC_ERROR == <<"S","E","M","A","N","T","I","C","_","E","R","R","O","R">>

tySCHEMA_ERROR == <<"S","C","H","E","M","A","_","E","R","R","O","R">>

tySECURITY_ERROR == <<"S","E","C","U","R","I","T","Y","_","E","R","R","O","R">>

tyEXECUTION_ERROR == <<"E","X","E","C","U","T","I","O","N","_","E","R","R","O","R">>

tyEMPTY_INPUT == <<"E","M","P","T","Y","_","I","N","P","U","T">>

tyPARSE_ERROR == <<"P","A","R","S","E","_","E","R","R","O","R">>

tySUCCESS == <<"S","U","C","C","E","S","S">>

Finding(name, type, severity, args, source) ==
    [name |-> name, type |-> type, severity |-> severity, args |-> args,
     source |-> source]

\* the keys of the patterns dict of _initialize_error_patterns, in dict order
pattern_keys ==
    << "missing_select", "missing_from", "aggregate_in_where", "missing_group_by",
       "having_without_group", "ambiguous_column", "group_by_column_not_in_select",
       "missing_aggregate_with_group_by" >>

\* the patterns dict with the aggregate checks typed after what they find
patterns_typed_by_topic ==
    [k \in Range(pattern_keys) |->
        [check_function |-> IF k = "missing_select" THEN "" ELSE k,
         type     |-> IF k \in {"missing_select", "missing_from"} THEN tySYNTAX_ERROR
                      ELSE IF k \in {"aggregate_in_where", "missing_aggregate_with_group_by"}
                      THEN <<"A","G","G","R","E","G","A","T","E","_","E","R","R","O","R">>
                      ELSE tySEMANTIC_ERROR,
         severity |-> IF k \in {"having_without_group", "ambiguous_column"}
                      THEN "MEDIUM" ELSE "HIGH",
         message  |-> "fallback"]]

\* the patterns dict as written, before the ontology is merged in
builtin_patterns ==
    [k \in Range(pattern_keys) |->
        [check_function |-> IF k = "missing_select" THEN "" ELSE k,
         type     |-> IF k \in {"missing_select", "missing_from"}
                      THEN tySYNTAX_ERROR ELSE tySEMANTIC_ERROR,
         severity |-> IF k \in {"having_without_group", "ambiguous_column"}
                      THEN "MEDIUM" ELSE "HIGH",
         message  |-> "fallback"]]

\* _initialize_error_patterns(): the ontology's message, type and severity
\* replace the built-in ones of every pattern the ontology knows
initialize_error_patterns(ontology_patterns) ==
    [k \in Range(pattern_keys) |->
        IF k \in DOMAIN ontology_patterns
        THEN [check_function |-> builtin_patterns[k].check_function,
              type     |-> ontology_patterns[k].type,
              severity |-> ontology_patterns[k].severity,
              message  |-> ontology_patterns[k].message]
        ELSE builtin_patterns[k]]

-----------------------------------------------------------------------------
(* The checks.                                                             *)

\* the body of _check_clause_order(query_text): the clauses found and the
\* expected ones, both gathered in the order of clause_keywords
clause_order_lists(query_text) ==
    LET query_upper == Upper(query_text)
        clauses == SelectSeq(clause_keywords, LAMBDA clause : Contains(query_upper, clause))
    IN  [clauses |-> clauses,
         filtered_expected |-> SelectSeq(clause_keywords, LAMBDA c : c \in Range(clauses))]

\* _check_clause_order(query_text): <<>> for None, <<finding>> otherwise
check_clause_order(query_text) ==
    LET l == clause_order_lists(query_text)
    IN  IF l.clauses # l.filtered_expected
        THEN << Finding("clause_order", tySYNTAX_ERROR, "MEDIUM", l.clauses, "") >>
        ELSE <<>>

\* _check_syntax(query_text, parsed)
check_syntax(query_text, patterns, ontology_keys) ==
    LET query_upper == Strip(Upper(query_text))
        pattern == patterns["missing_select"]
        missing_select ==
            IF ~StartsWith(query_upper, kwSELECT)
            THEN << Finding("missing_select", pattern.type, pattern.severity, <<>>, "ontology") >>
            ELSE <<>>
        clause_order_error == check_clause_order(query_text)
        clause_order ==
            IF clause_order_error # <<>> /\ "clause_order" \in ontology_keys
            THEN << [clause_order_error[1] EXCEPT !.args = <<>>, !.source = "ontology"] >>
            ELSE clause_order_error
    IN  missing_select \o clause_order

\* check_missing_from(parsed, query_text)
check_missing_from(query_text) ==
    LET query_upper == Upper(query_text)
    IN  Contains(query_upper, kwSELECT) /\ ~Contains(query_upper, kwFROM)

\* _has_aggregate_in_where(parsed), which check_aggregate_in_where returns
has_aggregate_in_where(parsed) ==
    LET query_str    == Upper(parsed)
        where_start  == Find(query_str, kwWHERE, 1)
        where_end    == clause_end(query_str, where_start,
                            <<kwGROUP_BY, kwHAVING, kwORDER_BY, kwLIMIT>>)
        where_clause == SubSeq(query_str, where_start, where_end - 1)
    IN  IF where_start = 0 THEN FALSE
        ELSE \E k \in DOMAIN aggregate_functions :
                Contains(where_clause, aggregate_functions[k] \o <<"(">>)

\* has_aggregate of _needs_group_by
select_has_aggregate(select_clause) ==
    \E k \in DOMAIN aggregate_functions : Contains(select_clause, aggregate_functions[k])

\* non_aggregate_columns of _needs_group_by
non_aggregate_columns(select_clause) ==
    SelectSeq(extract_columns_from_select(select_clause),
        LAMBDA col : ~\E k \in DOMAIN aggregate_functions :
                        col_in_call(select_clause, aggregate_functions[k], col))

\* _needs_group_by(parsed, query_text), which check_missing_group_by returns
needs_group_by(parsed, query_text) ==
    LET query_upper   == Upper(query_text)
        select_clause == extract_select_clause(parsed)
    IN  IF Contains(query_upper, kwGROUP_BY) THEN FALSE
        ELSE IF select_clause = <<>> THEN FALSE
        ELSE IF select_has_aggregate(select_clause)
             THEN non_aggregate_columns(select_clause) # <<>>
             ELSE FALSE

\* check_having_without_group(parsed, query_text)
check_having_without_group(query_text) ==
    LET query_upper == Upper(query_text)
    IN  Contains(query_upper, kwHAVING) /\ ~Contains(query_upper, kwGROUP_BY)

\* self.schema.keys(), as a set; self.schema is a list of [key, columns],
\* in dict order
schema_keys(tbl_schema) == {tbl_schema[i].key : i \in DOMAIN tbl_schema}

\* self.schema[key]['columns'].keys(), as a set
schema_columns(tbl_schema, key) ==
    tbl_schema[CHOOSE i \in DOMAIN tbl_schema : tbl_schema[i].key = key].columns

\* the columns _find_ambiguous_columns finds in more than one of the tables
ambiguous_cols(tables, tbl_schema) ==
    LET known == {t \in Range(tables) : Lower(t) \in schema_keys(tbl_schema)}
    IN  {col \in UNION {schema_columns(tbl_schema, Lower(t)) : t \in known} :
            Cardinality({t \in known : col \in schema_columns(tbl_schema, Lower(t))}) > 1}

\* re.findall(r'\b' + col + r'\b', query_str, re.IGNORECASE) is not empty
word_occurs(query_str, col) ==
    LET s == Lower(query_str)
    IN  \E i \in 1..Len(s) :
            /\ MatchAt(s, col, i)
            /\ (i = 1 \/ ~IsWordChar(s[i - 1]))
            /\ (i + Len(col) > Len(s) \/ ~IsWordChar(s[i + Len(col)]))

\* the test _find_ambiguous_columns makes of a column that occurs: no table
\* name in the 20 characters before the first place the column's text is found
used_unqualified(query_str, col, tables) ==
    LET pos       == Find(Lower(query_str), col, 1)
        lookback  == IF pos - 20 > 1 THEN pos - 20 ELSE 1
        preceding == Strip(SubSeq(query_str, lookback, pos - 1))
    IN  /\ pos > 1
        /\ ~\E t \in Range(tables) : Contains(preceding, Lower(t))

\* check_ambiguous_columns(parsed, query_text): len(_find_ambiguous_columns(parsed)) > 0
check_ambiguous_columns(parsed, tbl_schema) ==
    LET tables == extract_table_names(parsed)
    IN  [raised |-> tables.raised,
         value  |-> /\ ~tables.raised
                    /\ Len(tables.value) >= 2
                    /\ \E col \in ambiguous_cols(tables.value, tbl_schema) :
                          /\ word_occurs(parsed, col)
                          /\ used_unqualified(parsed, col, tables.value)]

\* check_group_by_column_not_in_select(parsed, query_text)
check_group_by_column_not_in_select(parsed, query_text) ==
    LET query_upper      == Upper(query_text)
        group_by_columns == extract_group_by_columns(parsed)
        select_columns   == extract_all_columns_from_select(extract_select_clause(parsed))
    IN  IF ~Contains(query_upper, kwGROUP_BY) THEN [raised |-> FALSE, value |-> FALSE]
        ELSE [raised |-> group_by_columns.raised,
              value  |-> /\ ~group_by_columns.raised
                         /\ \E i \in DOMAIN group_by_columns.value :
                               Upper(group_by_columns.value[i]) \notin
                                   {Upper(select_columns[j]) : j \in DOMAIN select_columns}]

\* has_aggregate of check_missing_aggregate_with_group_by: "FUNC(" or "FUNC ("
select_has_call(select_clause) ==
    \E k \in DOMAIN aggregate_functions :
        \/ Contains(select_clause, aggregate_functions[k] \o <<"(">>)
        \/ Contains(select_clause, aggregate_functions[k] \o <<" ", "(">>)

\* check_missing_aggregate_with_group_by(parsed, query_text)
check_missing_aggregate_with_group_by(parsed, query_text) ==
    LET query_upper == Upper(query_text)
    IN  /\ Contains(query_upper, kwGROUP_BY)
        /\ ~select_has_call(Upper(extract_select_clause(parsed)))

\* getattr(self, pattern['check_function'])(parsed, query_text)
run_check(check_function, parsed, query_text, tbl_schema) ==
    CASE check_function = "missing_from" ->
            [raised |-> FALSE, value |-> check_missing_from(query_text)]
      [] check_function = "aggregate_in_where" ->
            [raised |-> FALSE, value |-> has_aggregate_in_where(parsed)]
      [] check_function = "missing_group_by" ->
            [raised |-> FALSE, value |-> needs_group_by(parsed, query_text)]
      [] check_function = "having_without_group" ->
            [raised |-> FALSE, value |-> check_having_without_group(query_text)]
      [] check_function = "ambiguous_column" ->
            check_ambiguous_columns(parsed, tbl_schema)
      [] check_function = "group_by_column_not_in_select" ->
            check_group_by_column_not_in_select(parsed, query_text)
      [] check_function = "missing_aggregate_with_group_by" ->
            [raised |-> FALSE, value |-> check_missing_aggregate_with_group_by(parsed, query_text)]
      [] OTHER -> [raised |-> FALSE, value |-> FALSE]

RECURSIVE check_semantics_from(_, _, _, _, _)
\* the loop of _check_semantics over the patterns from the k-th on
check_semantics_from(k, parsed, query_text, patterns, tbl_schema) ==
    IF k > Len(pattern_keys) THEN [raised |-> FALSE, value |-> <<>>]
    ELSE LET key     == pattern_keys[k]
             pattern == patterns[key]
             fired   == IF pattern.check_function = ""
                        THEN [raised |-> FALSE, value |-> FALSE]
                        ELSE run_check(pattern.check_function, parsed, query_text, tbl_schema)
             rest    == check_semantics_from(k + 1, parsed, query_text, patterns, tbl_schema)
         IN  IF fired.raised THEN [raised |-> TRUE, value |-> <<>>]
             ELSE IF rest.raised THEN rest
             ELSE [raised |-> FALSE,
                   value  |-> (IF fired.value
                               THEN << Finding(key, pattern.type, pattern.severity, <<>>, "ontology") >>
                               ELSE <<>>) \o rest.value]

\* _check_semantics putting each finding in front: insert(0, ...) for append
check_semantics_prepending(parsed, query_text, patterns, tbl_schema) ==
    LET found(r) == [raised |-> r.raised,
                     value  |-> [i \in DOMAIN r.value |-> r.value[Len(r.value) + 1 - i]]]
    IN  found(check_semantics_from(1, parsed, query_text, patterns, tbl_schema))

\* _check_semantics(query_text, parsed)
check_semantics(parsed, query_text, patterns, tbl_schema) ==
    check_semantics_from(1, parsed, query_text, patterns, tbl_schema)

\* the suggestions when the table name is compared as the query gives it,
\* without table_name.lower()
table_suggestions_as_written(table_name, tbl_schema) ==
    LET hit == SelectSeq(tbl_schema,
                   LAMBDA t : \/ Contains(t.key, table_name)
                              \/ Contains(table_name, t.key))
    IN  [i \in DOMAIN hit |-> hit[i].key]

\* the suggestions of _check_schema_constraints for a table that is not
\* known, in the order of self.schema.keys()
table_suggestions(table_name, tbl_schema) ==
    LET hit == SelectSeq(tbl_schema,
                   LAMBDA t : \/ Contains(t.key, Lower(table_name))
                              \/ Contains(Lower(table_name), t.key))
    IN  [i \in DOMAIN hit |-> hit[i].key]

\* _check_schema_constraints(query_text, parsed); a finding's args are the
\* table name and the suggestions of its message
check_schema_constraints(parsed, tbl_schema) ==
    LET table_names == extract_table_names(parsed)
        unknown == SelectSeq(table_names.value,
                       LAMBDA t : Lower(t) \notin schema_keys(tbl_schema))
    IN  [raised |-> table_names.raised,
         value  |-> [i \in DOMAIN unknown |->
                        Finding("schema_table_exists", tySCHEMA_ERROR, "HIGH",
                                <<unknown[i]>> \o table_suggestions(unknown[i], tbl_schema),
                                "")]]

-----------------------------------------------------------------------------
(* OntologyManager: the learning-path planner.  sql_concepts maps a        *)
(* concept key to [difficulty, prerequisite]; "" is the None of a concept  *)
(* without a prerequisite.                                                 *)

\* the concepts suggest_learning_path adds for one error type
concepts_for(error_type) ==
    LET error_type_lower == Lower(error_type)
    IN  IF Contains(error_type_lower, <<"a","g","g","r","e","g","a","t","e">>)
        THEN {"aggregate_functions_concept", "group_by_concept"}
        ELSE IF \/ Contains(error_type_lower, <<"g","r","o","u","p">>)
                \/ Contains(error_type_lower, <<"h","a","v","i","n","g">>)
        THEN {"group_by_concept", "having_clause_concept"}
        ELSE IF Contains(error_type_lower, <<"j","o","i","n">>)
        THEN {"join_concept"}
        ELSE IF Contains(error_type_lower, <<"w","h","e","r","e">>)
        THEN {"where_clause_concept"}
        ELSE {}

\* concepts_needed after the first loop of suggest_learning_path
needed_concepts(errors) == UNION {concepts_for(errors[i]) : i \in DOMAIN errors}

\* the members of a Python set in the order a loop over it meets them
iteration_order(S, order) == SelectSeq(order, LAMBDA c : c \in S)

\* the while condition and the if of get_concept_prerequisites: the loop
\* appends one more prerequisite
walk_goes_on(concepts, current) ==
    /\ current \in DOMAIN concepts
    /\ concepts[current].prerequisite # ""
    /\ concepts[current].prerequisite \in DOMAIN concepts

\* the sort key of suggest_learning_path
difficulty_of(concepts, c) == IF c \in DOMAIN concepts THEN concepts[c].difficulty ELSE 1

\* the set as a list in iteration order, left unsorted
listed_unsorted(S, concepts, order) == iteration_order(S, order)

\* sorted(all_concepts, key=...): a stable sort of the set's iteration order
sorted_by_difficulty(S, concepts, order) ==
    LET listed == iteration_order(S, order)
        pos(c) == CHOOSE i \in DOMAIN listed : listed[i] = c
        before(d, c) ==
            \/ difficulty_of(concepts, d) < difficulty_of(concepts, c)
            \/ /\ difficulty_of(concepts, d) = difficulty_of(concepts, c)
               /\ pos(d) < pos(c)
    IN  [n \in 1..Cardinality(S) |->
            CHOOSE c \in S : Cardinality({d \in S : before(d, c)}) = n - 1]

RECURSIVE prerequisites_from(_, _, _)
\* get_concept_prerequisites, from current_concept on, for a concept table
\* whose prerequisite chains end; fuel is the number of concepts not yet met
prerequisites_from(concepts, current, fuel) ==
    IF fuel > 0 /\ walk_goes_on(concepts, current)
    THEN <<concepts[current].prerequisite>> \o
         prerequisites_from(concepts, concepts[current].prerequisite, fuel - 1)
    ELSE <<>>

\* get_concept_prerequisites(concept_name), when it returns
get_concept_prerequisites(concepts, concept_name) ==
    prerequisites_from(concepts, concept_name, Cardinality(DOMAIN concepts))

\* suggest_learning_path(current_errors), when it returns
suggest_learning_path(errors, concepts, order) ==
    LET needed == needed_concepts(errors)
        all    == needed \cup
                  UNION {Range(get_concept_prerequisites(concepts, c)) : c \in needed}
    IN  sorted_by_difficulty(all, concepts, order)

-----------------------------------------------------------------------------
(* The knowledge base.  The ontology file is not part of the program: an   *)
(* engine is constructed from whatever it holds.  kb_minimal is what       *)
(* _create_minimal_ontology leaves (nothing to extract); kb_tutor holds    *)
(* the three tables of the sample database, the five suggestion templates  *)
(* _generate_ontology_suggestions looks for, a chain of concepts, and its  *)
(* own type for one error pattern.                                         *)

txt_employees == <<"e","m","p","l","o","y","e","e","s">>

txt_departments == <<"d","e","p","a","r","t","m","e","n","t","s">>

txt_projects == <<"p","r","o","j","e","c","t","s">>

\* the tables and columns of _init_sample_database, as the ontology names them
tutor_schema ==
    << [key |-> txt_employees,
        columns |-> { <<"e","m","p","_","i","d">>,
                       <<"f","i","r","s","t","_","n","a","m","e">>,
                       <<"l","a","s","t","_","n","a","m","e">>,
                       <<"d","e","p","a","r","t","m","e","n","t">>,
                       <<"s","a","l","a","r","y">>,
                       <<"h","i","r","e","_","d","a","t","e">>,
                       <<"m","a","n","a","g","e","r","_","i","d">> }],
       [key |-> txt_departments,
        columns |-> { <<"d","e","p","t","_","i","d">>,
                       <<"d","e","p","t","_","n","a","m","e">>,
                       <<"l","o","c","a","t","i","o","n">>,
                       <<"b","u","d","g","e","t">> }],
       [key |-> txt_projects,
        columns |-> { <<"p","r","o","j","e","c","t","_","i","d">>,
                       <<"p","r","o","j","e","c","t","_","n","a","m","e">>,
                       <<"d","e","p","a","r","t","m","e","n","t">>,
                       <<"s","t","a","r","t","_","d","a","t","e">>,
                       <<"e","n","d","_","d","a","t","e">>,
                       <<"b","u","d","g","e","t">> }] >>

\* the keys _extract_feedback_messages derives for the templates, in dict order
tutor_feedback_messages ==
    << [key |-> <<"o","r","d","e","r","_","b","y">>, type |-> "SUGGESTION"],
       [key |-> <<"s","e","l","e","c","t","_","s","t","a","r">>, type |-> "SUGGESTION"],
       [key |-> <<"j","o","i","n">>, type |-> "SUGGESTION"],
       [key |-> <<"g","r","o","u","p","_","b","y","_","a","g","g","r","e","g","a","t","e">>, type |-> "SUGGESTION"],
       [key |-> <<"g","r","o","u","p","_","b","y","_","s","e","l","e","c","t">>, type |-> "SUGGESTION"] >>

\* a concept table as _extract_sql_concepts builds it
tutor_sql_concepts ==
    [c \in {"select_concept", "where_clause_concept", "join_concept",
            "aggregate_functions_concept", "group_by_concept", "having_clause_concept"} |->
        CASE c = "select_concept" -> [difficulty |-> 1, prerequisite |-> ""]
          [] c = "where_clause_concept" -> [difficulty |-> 2, prerequisite |-> "select_concept"]
          [] c = "join_concept" -> [difficulty |-> 3, prerequisite |-> "where_clause_concept"]
          [] c = "aggregate_functions_concept" -> [difficulty |-> 3, prerequisite |-> "select_concept"]
          [] c = "group_by_concept" -> [difficulty |-> 4, prerequisite |-> "aggregate_functions_concept"]
          [] c = "having_clause_concept" -> [difficulty |-> 5, prerequisite |-> "group_by_concept"]]

\* what _extract_error_patterns holds: the ontology types missing_group_by itself
tutor_error_patterns ==
    [k \in {"missing_group_by", "clause_order"} |->
        IF k = "missing_group_by"
        THEN [message |-> "ontology", type |-> <<"A","G","G","R","E","G","A","T","E","_","E","R","R","O","R">>, severity |-> "HIGH"]
        ELSE [message |-> "ontology", type |-> tySYNTAX_ERROR, severity |-> "MEDIUM"]]

\* the function with no argument: an empty dict
EmptyDict == [k \in {} |-> <<>>]

kb_minimal ==
    [schema_tables |-> <<>>, error_patterns |-> EmptyDict,
     feedback_messages |-> <<>>, sql_concepts |-> EmptyDict]

kb_tutor ==
    [schema_tables |-> tutor_schema, error_patterns |-> tutor_error_patterns,
     feedback_messages |-> tutor_feedback_messages, sql_concepts |-> tutor_sql_concepts]

KnowledgeBases == {kb_minimal, kb_tutor}

\* the orders in which this process may iterate a set of concept keys: the
\* order depends on the process's string hashing, two orders stand for all
HashOrders ==
    { <<"select_concept", "where_clause_concept", "join_concept",
        "aggregate_functions_concept", "group_by_concept", "having_clause_concept">>,
      <<"having_clause_concept", "group_by_concept", "aggregate_functions_concept",
        "join_concept", "where_clause_concept", "select_concept">> }

-----------------------------------------------------------------------------
(* The queries analysed.  A generated query is a SELECT list, a FROM       *)
(* clause, a WHERE clause and a tail, each taken from a short list.        *)

\* the SELECT lists
select_lists ==
    << <<"S","E","L","E","C","T"," ","*">>,
       <<"S","E","L","E","C","T"," ","d","e","p","a","r","t","m","e","n","t">>,
       <<"S","E","L","E","C","T"," ","C","O","U","N","T","(","*",")">>,
       <<"S","E","L","E","C","T"," ","d","e","p","a","r","t","m","e","n","t",","," ","C","O","U","N","T","(","*",")">>,
       <<"S","E","L","E","C","T"," ","s","a","l","a","r","y",","," ","S","U","M","(","s","a","l","a","r","y",")">>,
       <<"s","e","l","e","c","t"," ","c","o","u","n","t","(","*",")"," ","a","s"," ","t","o","t","a","l">>,
       <<"S","E","L","E","C","T"," ","d","i","s","c","o","u","n","t">>,
       <<"S","E","L","E","C","T"," ","M","A","X","(","s","a","l","a","r","y",")"," ","A","S"," ","t","o","p",","," ","M","I","N"," ","(","s","a","l","a","r","y",")">>,
       <<"S","E","L","E","C","T"," ","S","U","M","(","R","O","U","N","D","(","s","a","l","a","r","y",")"," ","+"," ","e","m","p","_","i","d",")">>,
       <<"S","E","L","E","C","T"," ","C","O","U","N","T","(","*",")"," ","t","o","t","a","l">>,
       <<"S","E","L","E","C","T"," ","e",".","d","e","p","a","r","t","m","e","n","t",","," ","A","V","G","(","e",".","s","a","l","a","r","y",")">> >>

\* the FROM clauses; the first is no FROM clause at all
from_clauses ==
    << <<>>,
       <<" ","F","R","O","M"," ","e","m","p","l","o","y","e","e","s">>,
       <<" ","f","r","o","m"," ","e","m","p","l","o","y","e","e","s"," ","e">>,
       <<" ","F","R","O","M"," ","e","m","p","l","o","y","e","s">>,
       <<" ","F","R","O","M"," ","e","m","p","l","o","y","e","e","s",","," ","p","r","o","j","e","c","t","s">>,
       <<" ","F","R","O","M">>,
       <<" ","F","R","O","M"," ","e","m","p","l","o","y","e","e","s"," ","e"," ","J","O","I","N"," ","d","e","p","a","r","t","m","e","n","t","s"," ","d"," ","O","N"," ","e",".","d","e","p","a","r","t","m","e","n","t"," ","="," ","d",".","d","e","p","t","_","n","a","m","e">> >>

\* the WHERE clauses
where_clauses ==
    << <<>>,
       <<" ","W","H","E","R","E"," ","s","a","l","a","r","y"," ",">"," ","5","0","0","0","0">>,
       <<" ","W","H","E","R","E"," ","C","O","U","N","T","(","*",")"," ",">"," ","1">> >>

\* what follows: GROUP BY, HAVING, ORDER BY, a semicolon
tail_clauses ==
    << <<>>,
       <<" ","G","R","O","U","P"," ","B","Y"," ","d","e","p","a","r","t","m","e","n","t">>,
       <<" ","G","R","O","U","P"," ","B","Y">>,
       <<" ","O","R","D","E","R"," ","B","Y"," ","s","a","l","a","r","y">>,
       <<" ","G","R","O","U","P"," ","B","Y"," ","d","e","p","a","r","t","m","e","n","t"," ","H","A","V","I","N","G"," ","C","O","U","N","T","(","*",")"," ",">"," ","1">>,
       <<" ","H","A","V","I","N","G"," ","C","O","U","N","T","(","*",")"," ",">"," ","1">>,
       <<";">> >>

-----------------------------------------------------------------------------
(* Single queries.                                                         *)

\* an empty input
q_empty == <<>>

\* a whitespace-only input
q_blank == <<" "," "," ">>

q_delete == <<"D","E","L","E","T","E"," ","F","R","O","M"," ","e","m","p","l","o","y","e","e","s">>

q_drop == <<"d","r","o","p"," ","t","a","b","l","e"," ","e","m","p","l","o","y","e","e","s">>

q_update == <<"U","P","D","A","T","E"," ","e","m","p","l","o","y","e","e","s"," ","S","E","T"," ","s","a","l","a","r","y"," ","="," ","0">>

q_insert == <<"I","N","S","E","R","T"," ","I","N","T","O"," ","d","e","p","a","r","t","m","e","n","t","s"," ","V","A","L","U","E","S"," ","(","8",","," ","'","O","p","s","'",","," ","'","R","o","m","e","'",","," ","1",")">>

q_alter == <<"A","L","T","E","R"," ","T","A","B","L","E"," ","e","m","p","l","o","y","e","e","s"," ","A","D","D"," ","n","o","t","e">>

q_create == <<"C","R","E","A","T","E"," ","T","A","B","L","E"," ","t"," ","(","a",")">>

q_truncate == <<"T","R","U","N","C","A","T","E"," ","T","A","B","L","E"," ","e","m","p","l","o","y","e","e","s">>

\* a read-only statement whose text holds a destructive keyword
q_update_literal == <<"S","E","L","E","C","T"," ","*"," ","F","R","O","M"," ","e","m","p","l","o","y","e","e","s"," ","W","H","E","R","E"," ","f","i","r","s","t","_","n","a","m","e"," ","="," ","'","U","p","d","a","t","e","'">>

\* a write that holds no destructive keyword
q_replace == <<"R","E","P","L","A","C","E"," ","I","N","T","O"," ","d","e","p","a","r","t","m","e","n","t","s"," ","V","A","L","U","E","S"," ","(","9",","," ","'","O","p","s","'",","," ","'","R","o","m","e","'",","," ","1",")">>

\* clauses out of order
q_where_before_from == <<"S","E","L","E","C","T"," ","*"," ","W","H","E","R","E"," ","s","a","l","a","r","y"," ",">"," ","1"," ","F","R","O","M"," ","e","m","p","l","o","y","e","e","s">>

q_order_before_group == <<"S","E","L","E","C","T"," ","*"," ","F","R","O","M"," ","e","m","p","l","o","y","e","e","s"," ","O","R","D","E","R"," ","B","Y"," ","s","a","l","a","r","y"," ","G","R","O","U","P"," ","B","Y"," ","d","e","p","a","r","t","m","e","n","t">>

\* two statements
q_two_statements == <<"S","E","L","E","C","T"," ","f","i","r","s","t","_","n","a","m","e"," ","F","R","O","M"," ","e","m","p","l","o","y","e","e","s",";"," ","D","E","L","E","T","E"," ","F","R","O","M"," ","e","m","p","l","o","y","e","e","s">>

q_departments == <<"S","E","L","E","C","T"," ","*"," ","F","R","O","M"," ","d","e","p","a","r","t","m","e","n","t","s">>

q_employees == <<"S","E","L","E","C","T"," ","*"," ","F","R","O","M"," ","e","m","p","l","o","y","e","e","s">>

q_mixed == <<"S","E","L","E","C","T"," ","d","e","p","a","r","t","m","e","n","t",","," ","C","O","U","N","T","(","*",")"," ","F","R","O","M"," ","e","m","p","l","o","y","e","e","s">>

\* FROM followed by no table
q_from_nothing == <<"S","E","L","E","C","T"," ","*"," ","F","R","O","M">>

q_delete_nothing == <<"D","E","L","E","T","E"," ","F","R","O","M">>

\* no SQL that sqlite3 knows
q_show == <<"S","H","O","W"," ","T","A","B","L","E","S">>

\* parentheses nested four deep
q_nested == <<"S","E","L","E","C","T"," ","(","(","(","(","1",")",")",")",")">>

q_drop_nested == <<"D","R","O","P"," ","T","A","B","L","E"," ","(","(","(","(","t",")",")",")",")">>

q_count_where == <<"S","E","L","E","C","T"," ","C","O","U","N","T","(","*",")"," ","W","H","E","R","E"," ","s","a","l","a","r","y"," ",">"," ","5","0","0","0","0">>

\* a JOIN whose span before ON is empty
q_join_on_nothing == <<"S","E","L","E","C","T"," ","*"," ","F","R","O","M"," ","e","m","p","l","o","y","e","e","s"," ","J","O","I","N"," ","O","N"," ","e","m","p","_","i","d"," ","="," ","1">>

\* an empty element of a comma-separated list
q_empty_list_element == <<"S","E","L","E","C","T"," ","*"," ","F","R","O","M"," ","e","m","p","l","o","y","e","e","s",","," ",","," ","p","r","o","j","e","c","t","s">>

\* a statement that ends in a semicolon right after its GROUP BY column
q_group_semicolon == <<"S","E","L","E","C","T"," ","d","e","p","a","r","t","m","e","n","t",","," ","C","O","U","N","T","(","*",")"," ","F","R","O","M"," ","e","m","p","l","o","y","e","e","s"," ","G","R","O","U","P"," ","B","Y"," ","d","e","p","a","r","t","m","e","n","t",";">>

\* a column two tables hold, written with its table's alias
q_alias_qualified == <<"S","E","L","E","C","T"," ","e",".","d","e","p","a","r","t","m","e","n","t"," ","F","R","O","M"," ","e","m","p","l","o","y","e","e","s"," ","e",","," ","p","r","o","j","e","c","t","s"," ","p">>

\* the same column, written with its table's name
q_table_qualified == <<"S","E","L","E","C","T"," ","e","m","p","l","o","y","e","e","s",".","d","e","p","a","r","t","m","e","n","t"," ","F","R","O","M"," ","e","m","p","l","o","y","e","e","s",","," ","p","r","o","j","e","c","t","s">>

\* the same column, qualified where it occurs first and bare later
q_qualified_then_bare == <<"S","E","L","E","C","T"," ","e","m","p","l","o","y","e","e","s",".","d","e","p","a","r","t","m","e","n","t"," ","F","R","O","M"," ","e","m","p","l","o","y","e","e","s",","," ","p","r","o","j","e","c","t","s"," ","O","R","D","E","R"," ","B","Y"," ","d","e","p","a","r","t","m","e","n","t">>

\* a table name that is part of a known table's name
q_employee == <<"S","E","L","E","C","T"," ","*"," ","F","R","O","M"," ","e","m","p","l","o","y","e","e">>

\* an aggregate call after the LIMIT keyword that follows WHERE
q_limit_subquery == <<"S","E","L","E","C","T"," ","*"," ","F","R","O","M"," ","e","m","p","l","o","y","e","e","s"," ","W","H","E","R","E"," ","s","a","l","a","r","y"," ",">"," ","1"," ","L","I","M","I","T"," ","(","S","E","L","E","C","T"," ","C","O","U","N","T","(","*",")"," ","F","R","O","M"," ","d","e","p","a","r","t","m","e","n","t","s",")">>

\* no WHERE clause, and a name that ends in the letters of WHERE
q_elsewhere == <<"S","E","L","E","C","T"," ","d","e","p","a","r","t","m","e","n","t"," ","A","S"," ","e","l","s","e","w","h","e","r","e",","," ","C","O","U","N","T","(","*",")"," ","F","R","O","M"," ","e","m","p","l","o","y","e","e","s"," ","G","R","O","U","P"," ","B","Y"," ","d","e","p","a","r","t","m","e","n","t">>

\* two tables and no JOIN
q_two_tables == <<"S","E","L","E","C","T"," ","*"," ","F","R","O","M"," ","e","m","p","l","o","y","e","e","s",","," ","d","e","p","a","r","t","m","e","n","t","s">>

\* a JOIN on a table whose name holds the letters ON
q_join_locations == <<"S","E","L","E","C","T"," ","*"," ","F","R","O","M"," ","e","m","p","l","o","y","e","e","s"," ","e"," ","J","O","I","N"," ","l","o","c","a","t","i","o","n","s"," ","l"," ","O","N"," ","e",".","e","m","p","_","i","d"," ","="," ","l",".","e","m","p","_","i","d">>

\* a statement the syntax check, two semantic checks and the gate object to
q_delete_where_count == <<"D","E","L","E","T","E"," ","F","R","O","M"," ","e","m","p","l","o","y","e","e","s"," ","W","H","E","R","E"," ","C","O","U","N","T","(","*",")"," ",">"," ","1"," ","H","A","V","I","N","G"," ","C","O","U","N","T","(","*",")"," ",">"," ","1">>

\* a GROUP BY column written with its table's alias, as in SELECT
q_group_qualified == <<"S","E","L","E","C","T"," ","e",".","d","e","p","a","r","t","m","e","n","t",","," ","C","O","U","N","T","(","*",")"," ","F","R","O","M"," ","e","m","p","l","o","y","e","e","s"," ","e"," ","G","R","O","U","P"," ","B","Y"," ","e",".","d","e","p","a","r","t","m","e","n","t">>

SingleQueries ==
    { q_empty, q_blank, q_delete, q_drop,
      q_update, q_insert, q_alter, q_create,
      q_truncate, q_update_literal, q_replace, q_where_before_from,
      q_order_before_group, q_two_statements, q_departments, q_employees,
      q_mixed, q_from_nothing, q_delete_nothing, q_show,
      q_nested, q_drop_nested, q_count_where, q_join_on_nothing,
      q_empty_list_element, q_group_semicolon, q_alias_qualified, q_table_qualified,
      q_qualified_then_bare, q_employee, q_limit_subquery, q_elsewhere,
      q_two_tables, q_join_locations, q_delete_where_count, q_group_qualified }

\* the query made of the i-th SELECT list, the j-th FROM clause, the k-th
\* WHERE clause and the l-th tail
generated(i, j, k, l) ==
    select_lists[i] \o from_clauses[j] \o where_clauses[k] \o tail_clauses[l]

\* the plainest query: SELECT * FROM employees
plain_query == <<1, 2, 1, 1>>

\* the number of parts in which a generated query differs from the plainest
MaxVaried == 2

GeneratedQueries ==
    {generated(t[1], t[2], t[3], t[4]) :
        t \in {u \in (DOMAIN select_lists) \X (DOMAIN from_clauses)
                       \X (DOMAIN where_clauses) \X (DOMAIN tail_clauses) :
                   Cardinality({n \in 1..4 : u[n] # plain_query[n]}) <= MaxVaried}}

\* the inputs of the analysis of one query
Corpus == GeneratedQueries \cup SingleQueries

\* the inputs of a session of several calls on one engine
SessionQueries ==
    { q_empty, q_departments, q_employees, q_replace, q_delete, q_mixed, q_from_nothing, q_where_before_from }

-----------------------------------------------------------------------------
(* What sqlite3 does with the statements above, on the sample database:    *)
(* its answers are taken from SQLite itself, not derived here.             *)

\* the WHERE clauses SQLite accepts; the second names a column, and needs
\* a FROM clause
accepted_wheres == {1, 2}

\* per SELECT list (row) and FROM clause (column), the tails with which
\* SQLite runs the statement and returns rows
accepted_tails ==
    << << {}, {1,2,4,5,7}, {1,2,4,5,7}, {}, {1,4,7}, {}, {1,2,4,5,7} >>,
       << {}, {1,2,4,5,7}, {1,2,4,5,7}, {}, {}, {}, {1,2,4,5,7} >>,
       << {1,6,7}, {1,2,4,5,6,7}, {1,2,4,5,6,7}, {}, {1,4,6,7}, {}, {1,2,4,5,6,7} >>,
       << {}, {1,2,4,5,6,7}, {1,2,4,5,6,7}, {}, {}, {}, {1,2,4,5,6,7} >>,
       << {}, {1,2,4,5,6,7}, {1,2,4,5,6,7}, {}, {1,4,6,7}, {}, {1,2,4,5,6,7} >>,
       << {1,6,7}, {1,2,4,5,6,7}, {1,2,4,5,6,7}, {}, {1,4,6,7}, {}, {1,2,4,5,6,7} >>,
       << {}, {}, {}, {}, {}, {}, {} >>,
       << {}, {1,2,4,5,6,7}, {1,2,4,5,6,7}, {}, {1,4,6,7}, {}, {1,2,4,5,6,7} >>,
       << {}, {1,2,4,5,6,7}, {1,2,4,5,6,7}, {}, {1,4,6,7}, {}, {1,2,4,5,6,7} >>,
       << {1,6,7}, {1,2,4,5,6,7}, {1,2,4,5,6,7}, {}, {1,4,6,7}, {}, {1,2,4,5,6,7} >>,
       << {}, {}, {1,2,4,5,6,7}, {}, {}, {}, {1,2,4,5,6,7} >> >>

\* the statements SQLite runs and returns rows for
sqlite_selects ==
    UNION {{generated(i, j, k, l) : k \in IF j = 1 THEN accepted_wheres \ {2}
                                                     ELSE accepted_wheres,
                                    l \in accepted_tails[i][j]} :
              i \in DOMAIN select_lists, j \in DOMAIN from_clauses}
        \cup { q_update_literal, q_departments, q_employees, q_mixed, q_nested, q_group_semicolon, q_alias_qualified, q_table_qualified, q_limit_subquery, q_elsewhere, q_two_tables, q_group_qualified }

\* the statements SQLite runs without a result set: they write
sqlite_writes ==
    { q_delete, q_drop, q_update, q_insert, q_alter, q_create, q_replace }

\* the depth of parentheses beyond which sqlparse gives up
MaxParseDepth == 3

-----------------------------------------------------------------------------
(* The sandbox: the sqlite3 cursor of _init_sample_database.  The contents *)
(* of a table are the writes applied to it since _insert_sample_data: {}   *)
(* is the table as constructed.                                            *)

sample_tables == {txt_employees, txt_departments, txt_projects}

\* the database after _init_sample_database
initial_db == [t \in sample_tables |-> {}]

\* the tables a statement names
tables_named(stmt) == {t \in sample_tables : Contains(Lower(stmt), t)}

\* cursor.execute(stmt): "rows" (a result set to fetch), "done" (executed,
\* cursor.description is None) or "error" (sqlite3.Error is raised)
sqlite_execute(database, stmt) ==
    IF stmt \in sqlite_selects THEN [status |-> "rows", db |-> database]
    ELSE IF stmt \in sqlite_writes
    THEN [status |-> "done",
          db |-> [t \in sample_tables |->
                    IF t \in tables_named(stmt) THEN database[t] \cup {stmt}
                    ELSE database[t]]]
    ELSE [status |-> "error", db |-> database]

\* the 'result' dict of _try_execute_query: the column names are those of the
\* statement, the rows and their count those it finds in the tables it reads
execution_result(database, stmt) ==
    LET found == [t \in tables_named(stmt) |-> database[t]]
    IN  [columns |-> stmt, data |-> found, row_count |-> found]

\* the safety check of _try_execute_query
is_destructive(query_text) ==
    LET query_upper == Strip(Upper(query_text))
    IN  \E k \in DOMAIN destructive_keywords : Contains(query_upper, destructive_keywords[k])

\* _try_execute_query without its except clause: sqlite3.Error leaves it as
\* the TypeError does
try_execute_uncaught(query_text, database) ==
    IF is_destructive(query_text)
    THEN [raised |-> FALSE, sent |-> FALSE, db |-> database, result |-> <<>>,
          error |-> << Finding("security", tySECURITY_ERROR, "HIGH", <<>>, "") >>]
    ELSE LET run == sqlite_execute(database, query_text)
         IN  [raised |-> run.status # "rows", sent |-> TRUE, db |-> run.db, error |-> <<>>,
              result |-> IF run.status = "rows"
                         THEN << execution_result(run.db, query_text) >> ELSE <<>>]

\* _try_execute_query with an except clause that drops the error: sqlite3.Error
\* leaves neither a finding nor a result
try_execute_silent(query_text, database) ==
    IF is_destructive(query_text)
    THEN [raised |-> FALSE, sent |-> FALSE, db |-> database, result |-> <<>>,
          error |-> << Finding("security", tySECURITY_ERROR, "HIGH", <<>>, "") >>]
    ELSE LET run == sqlite_execute(database, query_text)
         IN  [raised |-> run.status = "done", sent |-> TRUE, db |-> run.db, error |-> <<>>,
              result |-> IF run.status = "rows"
                         THEN << execution_result(run.db, query_text) >> ELSE <<>>]

\* _try_execute_query(query_text, parsed): error and result hold at most one
\* element; raised is the TypeError of iterating a description that is None
try_execute_query(query_text, database) ==
    IF is_destructive(query_text)
    THEN [raised |-> FALSE, sent |-> FALSE, db |-> database, result |-> <<>>,
          error |-> << Finding("security", tySECURITY_ERROR, "HIGH", <<>>, "") >>]
    ELSE LET run == sqlite_execute(database, query_text)
         IN  CASE run.status = "rows" ->
                    [raised |-> FALSE, sent |-> TRUE, db |-> run.db, error |-> <<>>,
                     result |-> << execution_result(run.db, query_text) >>]
               [] run.status = "done" ->
                    [raised |-> TRUE, sent |-> TRUE, db |-> run.db, error |-> <<>>,
                     result |-> <<>>]
               [] OTHER ->
                    [raised |-> FALSE, sent |-> TRUE, db |-> run.db, result |-> <<>>,
                     error |-> << Finding("execution", tyEXECUTION_ERROR, "HIGH", <<>>, "") >>]

-----------------------------------------------------------------------------
(* Suggestions.                                                            *)

Suggestion(template, severity) ==
    [message |-> template.key, type |-> template.type, severity |-> severity,
     source |-> "ontology"]

\* the first test of the chain with its last conjunct left out
order_by_absent(query_upper, key) ==
    /\ ~Contains(query_upper, kwORDER_BY)
    /\ Contains(key, <<"o","r","d","e","r","_","b","y">>)

\* the first test of the chain: no ORDER BY in the query, order_by in the
\* key of the template, and no GROUP BY in the query
order_by_trigger(query_upper, key) ==
    /\ ~Contains(query_upper, kwORDER_BY)
    /\ Contains(key, <<"o","r","d","e","r","_","b","y">>)
    /\ ~Contains(query_upper, kwGROUP_BY)

\* the if/elif chain of _generate_ontology_suggestions for one template:
\* the suggestions it appends
suggestions_for(template, query_text, parsed) ==
    LET query_upper == Upper(query_text)
        key         == Lower(template.key)
        has_group   == Contains(query_upper, kwGROUP_BY)
        group_cols  == extract_group_by_columns(parsed)
        select_cols == extract_all_columns_from_select(extract_select_clause(parsed))
    IN  IF order_by_trigger(query_upper, key)
        THEN [raised |-> FALSE, value |-> << Suggestion(template, "LOW") >>]
        ELSE IF /\ Contains(query_text, <<"*">>)
                /\ Contains(key, <<"s","e","l","e","c","t","_","s","t","a","r">>)
                /\ ~Contains(query_upper, <<"C","O","U","N","T","(","*",")">>)
        THEN [raised |-> FALSE, value |-> << Suggestion(template, "LOW") >>]
        ELSE IF /\ Contains(query_upper, txt_employees)
                /\ Contains(query_upper, txt_departments)
                /\ Contains(key, <<"j","o","i","n">>)
                /\ ~Contains(query_upper, kwJOIN)
        THEN [raised |-> FALSE, value |-> << Suggestion(template, "MEDIUM") >>]
        ELSE IF has_group /\ Contains(key, <<"g","r","o","u","p","_","b","y","_","a","g","g","r","e","g","a","t","e">>)
        THEN [raised |-> FALSE,
              value  |-> IF ~select_has_call(Upper(extract_select_clause(parsed)))
                         THEN << Suggestion(template, "MEDIUM") >> ELSE <<>>]
        ELSE IF has_group /\ Contains(key, <<"g","r","o","u","p","_","b","y","_","s","e","l","e","c","t">>)
        THEN [raised |-> group_cols.raised,
              value  |-> IF /\ ~group_cols.raised
                            /\ \E i \in DOMAIN group_cols.value :
                                  Upper(group_cols.value[i]) \notin
                                      {Upper(select_cols[j]) : j \in DOMAIN select_cols}
                         THEN << Suggestion(template, "MEDIUM") >> ELSE <<>>]
        ELSE [raised |-> FALSE, value |-> <<>>]

RECURSIVE suggestions_from(_, _, _, _)
\* the loop of _generate_ontology_suggestions over the templates from the k-th on
suggestions_from(k, templates, query_text, parsed) ==
    IF k > Len(templates) THEN [raised |-> FALSE, value |-> <<>>]
    ELSE LET one  == suggestions_for(templates[k], query_text, parsed)
             rest == suggestions_from(k + 1, templates, query_text, parsed)
         IN  IF one.raised THEN one
             ELSE [raised |-> rest.raised, value |-> one.value \o rest.value]

\* _generate_ontology_suggestions(query_text, parsed, errors)
generate_ontology_suggestions(templates, query_text, parsed) ==
    suggestions_from(1, templates, query_text, parsed)

-----------------------------------------------------------------------------
(* analyze_query.                                                          *)

\* the feedback dict analyze_query starts from; <<>> is the None of
\* execution_result
new_feedback ==
    [errors |-> <<>>, warnings |-> <<>>, suggestions |-> <<>>, learning_path |-> <<>>,
     correctness |-> "UNKNOWN", execution_result |-> <<>>]

\* the test made without strip(): only the text of no characters is empty
is_empty_text(query_text) == query_text = <<>>

\* "if not query_text.strip()" of analyze_query
is_empty_input(query_text) == Strip(query_text) = <<>>

\* how deep the parentheses of a text nest
nesting_depth(text) ==
    LET level(i) == Cardinality({j \in 1..i : text[j] = "("})
                    - Cardinality({j \in 1..i : text[j] = ")"})
    IN  IF text = <<>> THEN 0 ELSE SetMax({level(i) : i \in 1..Len(text)} \cup {0})

\* sqlparse.parse(query_text) raises: the statement nests deeper than the
\* parser's recursion allows
parse_fails(query_text) == nesting_depth(query_text) > MaxParseDepth

\* "Determine overall correctness" of analyze_query
correctness_of(errors) ==
    IF errors = <<>> THEN "CORRECT"
    ELSE IF \E i \in DOMAIN errors : errors[i].severity = "HIGH" THEN "INCORRECT"
    ELSE "PARTIAL"

positive_suggestion ==
    [message |-> tySUCCESS, type |-> "SUCCESS", severity |-> "LOW", source |-> "ontology"]

\* the suggestions with the positive one put last: append for insert(0, ...)
positive_appended(errors, advice) ==
    IF errors = <<>> THEN advice \o <<positive_suggestion>> ELSE advice

\* feedback['suggestions'] once the verdict is set: without errors the
\* positive suggestion is inserted in front
with_positive(errors, advice) ==
    IF errors = <<>> THEN <<positive_suggestion>> \o advice ELSE advice

\* analyze_query(query_text) on an engine with the given knowledge and
\* database, where run is what _try_execute_query returns or raises: what
\* leaves analyze_query ("report" or the exception raised), the feedback
\* returned, the database afterwards, and whether cursor.execute was called
analyze_with(query_text, patterns, ontology_keys, tbl_schema, templates, concepts, order, database, run) ==
    LET parsed == parsed_str(query_text)
        stopped(exception, database_after, was_sent) ==
            [outcome |-> exception, feedback |-> new_feedback, db |-> database_after,
             sent |-> was_sent]
        early(finding) ==
            [outcome |-> "report", db |-> database, sent |-> FALSE,
             feedback |-> [new_feedback EXCEPT !.errors = << finding >>]]
        report(errors, verdict, advice) ==
            [outcome |-> "report", db |-> run.db, sent |-> run.sent,
             feedback |->
                [errors |-> errors,
                 warnings |-> <<>>,
                 suggestions |-> with_positive(errors, advice.value),
                 learning_path |-> suggest_learning_path(
                                       [i \in DOMAIN errors |-> errors[i].type],
                                       concepts, order),
                 correctness |-> verdict,
                 execution_result |-> run.result]]
        verdict_on(errors, advice) ==
            report(errors, correctness_of(errors), advice)
        analysis(syntax, semantic, schem, advice) ==
            IF semantic.raised \/ schem.raised
            THEN stopped("IndexError", database, FALSE)
            ELSE IF run.raised
            THEN stopped("TypeError", run.db, run.sent)
            ELSE IF advice.raised
            THEN stopped("IndexError", run.db, run.sent)
            ELSE verdict_on(syntax \o semantic.value \o schem.value \o run.error, advice)
    IN  IF is_empty_input(query_text)
        THEN early(Finding("empty_input", tyEMPTY_INPUT, "LOW", <<>>, ""))
        ELSE IF parse_fails(query_text)
        THEN early(Finding("parse_error", tyPARSE_ERROR, "HIGH", <<>>, ""))
        ELSE analysis(check_syntax(query_text, patterns, ontology_keys),
                      check_semantics(parsed, query_text, patterns, tbl_schema),
                      check_schema_constraints(parsed, tbl_schema),
                      generate_ontology_suggestions(templates, query_text, parsed))

\* analyze_query(query_text) by the only caller of the engine: the executor
\* runs the query on the database as the call finds it
analyze_query(query_text, patterns, ontology_keys, tbl_schema, templates, concepts, order, database) ==
    analyze_with(query_text, patterns, ontology_keys, tbl_schema, templates, concepts, order,
                 database, try_execute_query(query_text, database))

\* the call gets as far as cursor.execute: it is not left before, by an
\* early return, an exception of a check or the gate of _try_execute_query
reaches_cursor(query_text, patterns, tbl_schema) ==
    /\ ~is_empty_input(query_text)
    /\ ~parse_fails(query_text)
    /\ ~check_semantics(parsed_str(query_text), query_text, patterns, tbl_schema).raised
    /\ ~check_schema_constraints(parsed_str(query_text), tbl_schema).raised
    /\ ~is_destructive(query_text)

\* _check_syntax making its missing_select finding out of the pattern itself:
\* the entry of the catalog takes the finding's source
patterns_updated(query_text, patterns) ==
    LET pattern == patterns["missing_select"]
    IN  IF /\ ~is_empty_input(query_text)
           /\ ~parse_fails(query_text)
           /\ ~StartsWith(Strip(Upper(query_text)), kwSELECT)
        THEN [patterns EXCEPT !["missing_select"] =
                 [f \in DOMAIN pattern \cup {"source"} |->
                     IF f = "source" THEN "ontology" ELSE pattern[f]]]
        ELSE patterns

\* self.error_patterns after analyze_query(query_text): _check_syntax gets
\* the missing_select pattern and copies its fields into a new dict,
\* _check_semantics does the same with the patterns it iterates, and nothing
\* writes the catalog
patterns_after_analysis(query_text, patterns) ==
    patterns

-----------------------------------------------------------------------------
(* The engine: construction, and analyze_query as the only operation.      *)

\* the number of analyze_query calls of a session
MaxCalls == 3

\* the callers that may have an analyze_query call running on the engine at
\* the same time
Callers == {"first", "second"}

\* self.cursor after _init_sample_database, with nothing to fetch
no_statement == [statement |-> <<>>, fetched |-> TRUE]

\* what _try_execute_query has to return before it has run
no_run == [raised |-> FALSE, sent |-> FALSE, db |-> initial_db, error |-> <<>>, result |-> <<>>]

\* a caller that has no call running: where its call is, the thread that runs
\* it, its query, the local "results" of _try_execute_query (the statement
\* whose rows fetchall returned) and what _try_execute_query returns
not_running == [at |-> "idle", thread |-> "", query_text |-> <<>>, results |-> <<>>, run |-> no_run]

\* SQLTutorEngine.__init__ on an ontology that holds kb, in a process whose
\* sets iterate in the given order
InitEngine(kb, order) ==
    /\ schema = kb.schema_tables
    /\ ontology_error_patterns = kb.error_patterns
    /\ error_patterns = initialize_error_patterns(kb.error_patterns)
    /\ feedback_messages = kb.feedback_messages
    /\ sql_concepts = kb.sql_concepts
    /\ hash_order = order
    /\ db = initial_db
    /\ sent = {}
    /\ calls = 0
    /\ pc = "idle"
    /\ query = <<>>
    /\ last_call = [outcome |-> "none", feedback |-> new_feedback, db |-> initial_db,
                    sent |-> FALSE]
    /\ first_report = <<>>
    /\ cursor = no_statement
    /\ in_flight = [c \in Callers |-> not_running]
    /\ current_errors = <<>>
    /\ concepts_needed = {}
    /\ remaining = <<>>
    /\ all_concepts = {}
    /\ current_concept = ""
    /\ prerequisites = <<>>
    /\ learning_path = <<>>

Init == \E kb \in KnowledgeBases, order \in HashOrders : InitEngine(kb, order)

\* how the last call ended: "none" (no call yet), "report", or the exception
\* that left analyze_query ("IndexError", "TypeError")
outcome == last_call.outcome

\* the Report the last call returned
feedback == last_call.feedback

\* one call of analyze_query(q), from entry to return or exception
AnalyzeQuery(q) ==
    /\ pc = "idle"
    /\ calls' = calls + 1
    /\ query' = q
    /\ last_call' = analyze_query(q, error_patterns, DOMAIN ontology_error_patterns,
                                  schema, feedback_messages, sql_concepts, hash_order, db)
    /\ db' = last_call'.db
    /\ sent' = IF last_call'.sent THEN sent \cup {q} ELSE sent
    /\ first_report' = IF first_report = <<>> /\ last_call'.outcome = "report"
                       THEN << [query |-> q, feedback |-> last_call'.feedback] >>
                       ELSE first_report
    /\ error_patterns' = patterns_after_analysis(q, error_patterns)
    /\ UNCHANGED <<schema, ontology_error_patterns, feedback_messages, sql_concepts, hash_order>>
    /\ UNCHANGED <<plan_vars, pc, cursor, in_flight>>

\* a session: up to MaxCalls calls on one engine
Next == \E q \in SessionQueries : calls < MaxCalls /\ AnalyzeQuery(q)

Spec == Init /\ [][Next]_vars

\* the analysis of one query of the corpus by a fresh engine
NextAnalyze == \E q \in Corpus : calls = 0 /\ AnalyzeQuery(q)

SpecAnalyze == Init /\ [][NextAnalyze]_vars

-----------------------------------------------------------------------------
(* The planner on its own: suggest_learning_path step by step, on any      *)
(* concept table an ontology can hold.                                     *)

\* the largest difficultyLevel of a concept
MaxDifficulty == 2

\* the longest list of error types handed to suggest_learning_path
MaxErrors == 2

\* the number of prerequisites a walk is followed for
MaxWalk == 4

\* the keys of the concept tables
PlanKeys == {"aggregate_functions_concept", "group_by_concept", "select_concept"}

\* what hasPrerequisite names: nothing, a concept of the table (itself, or
\* one that names it in turn, included), or a concept the table does not hold
PlanPrerequisites ==
    {"", "aggregate_functions_concept", "select_concept", "join_concept"}

ConceptTables ==
    [PlanKeys -> [difficulty : 1..MaxDifficulty, prerequisite : PlanPrerequisites]]

\* the error types a finding can carry: the built-in ones name no concept,
\* the ontology's own can, and can hold several of the words the planner
\* looks for
ErrorTypes ==
    { tySYNTAX_ERROR,
      <<"A","G","G","R","E","G","A","T","E","_","I","N","_","W","H","E","R","E">>,
      <<"H","A","V","I","N","G","_","E","R","R","O","R">> }

ErrorLists == UNION {[1..n -> ErrorTypes] : n \in 0..MaxErrors}

InitPlan ==
    \E table \in ConceptTables, order \in HashOrders :
        InitEngine([kb_minimal EXCEPT !.sql_concepts = table], order)

\* suggest_learning_path(errors), up to its second loop
SuggestLearningPath(errors) ==
    /\ pc = "idle"
    /\ calls = 0
    /\ calls' = calls + 1
    /\ current_errors' = errors
    /\ concepts_needed' = needed_concepts(errors)
    /\ all_concepts' = needed_concepts(errors)
    /\ remaining' = iteration_order(needed_concepts(errors), hash_order)
    /\ learning_path' = <<>>
    /\ pc' = "plan"
    /\ UNCHANGED <<kb_vars, db, sent, query, last_call, first_report, cursor,
                   in_flight, current_concept, prerequisites>>

\* the second loop takes its next concept and calls get_concept_prerequisites
WalkCall ==
    /\ pc = "plan"
    /\ remaining # <<>>
    /\ current_concept' = Head(remaining)
    /\ remaining' = Tail(remaining)
    /\ prerequisites' = <<>>
    /\ pc' = "walk"
    /\ UNCHANGED <<kb_vars, engine_vars, current_errors, concepts_needed,
                   all_concepts, learning_path>>

\* one iteration of the while loop of get_concept_prerequisites that
\* appends a prerequisite
WalkStep ==
    /\ pc = "walk"
    /\ walk_goes_on(sql_concepts, current_concept)
    /\ Len(prerequisites) < MaxWalk
    /\ prerequisites' = Append(prerequisites, sql_concepts[current_concept].prerequisite)
    /\ current_concept' = sql_concepts[current_concept].prerequisite
    /\ UNCHANGED <<kb_vars, engine_vars, pc, current_errors, concepts_needed,
                   remaining, all_concepts, learning_path>>

\* the loop ends: get_concept_prerequisites returns, all_concepts is updated
WalkReturn ==
    /\ pc = "walk"
    /\ ~walk_goes_on(sql_concepts, current_concept)
    /\ all_concepts' = all_concepts \cup Range(prerequisites)
    /\ pc' = "plan"
    /\ UNCHANGED <<kb_vars, engine_vars, current_errors, concepts_needed,
                   remaining, current_concept, prerequisites, learning_path>>

\* the second loop is over: suggest_learning_path returns the sorted list
PlanReturn ==
    /\ pc = "plan"
    /\ remaining = <<>>
    /\ learning_path' = sorted_by_difficulty(all_concepts, sql_concepts, hash_order)
    /\ pc' = "idle"
    /\ UNCHANGED <<kb_vars, engine_vars, current_errors, concepts_needed,
                   remaining, all_concepts, current_concept, prerequisites>>

NextPlan ==
    \/ \E errors \in ErrorLists : SuggestLearningPath(errors)
    \/ WalkCall
    \/ WalkStep
    \/ WalkReturn
    \/ PlanReturn

SpecPlan == InitPlan /\ [][NextPlan]_vars

-----------------------------------------------------------------------------
(* Two callers on one engine.  The engine has one connection and one       *)
(* cursor, made by the thread that constructed it; _try_execute_query      *)
(* talks to that cursor in three steps: execute, fetchall, description.    *)
(* sqlite3.connect is called with its default check_same_thread: a thread  *)
(* other than the one that made the connection gets                        *)
(* sqlite3.ProgrammingError from every call on it.                         *)

\* the thread that constructed the engine: sqlite3.connect(':memory:') ties
\* self.conn and self.cursor to it
engine_thread == "main"

\* the threads of the host
Threads == {"main", "worker_1", "worker_2"}

\* the queries of concurrent callers: none of them writes
ConcurrentQueries == {q_departments, q_employees, q_show}

\* what _try_execute_query returns from its except clause
execution_error(database) ==
    [raised |-> FALSE, sent |-> TRUE, db |-> database, result |-> <<>>,
     error |-> << Finding("execution", tyEXECUTION_ERROR, "HIGH", <<>>, "") >>]

\* the result dict built from what the call read from the cursor: the column
\* names of the statement described, the rows and the count of the statement
\* fetched
result_read(database, described, fetched) ==
    [columns   |-> described,
     data      |-> IF fetched = <<>> THEN <<>> ELSE execution_result(database, fetched[1]).data,
     row_count |-> IF fetched = <<>> THEN <<>> ELSE execution_result(database, fetched[1]).row_count]

\* a thread that runs no call enters analyze_query(q); the call runs up to
\* cursor.execute, or to the end of _try_execute_query when it does not get
\* that far
StartCall(c, thread, q) ==
    /\ pc = "idle"
    /\ in_flight[c].at = "idle"
    /\ \A d \in Callers : in_flight[d].thread # thread
    /\ calls' = calls + 1
    /\ in_flight' = [in_flight EXCEPT ![c] =
          IF reaches_cursor(q, error_patterns, schema)
          THEN [at |-> "execute", thread |-> thread, query_text |-> q, results |-> <<>>,
                run |-> no_run]
          ELSE [at |-> "return", thread |-> thread, query_text |-> q, results |-> <<>>,
                run |-> try_execute_query(q, db)]]
    /\ error_patterns' = patterns_after_analysis(q, error_patterns)
    /\ UNCHANGED <<schema, ontology_error_patterns, feedback_messages, sql_concepts, hash_order>>
    /\ UNCHANGED <<plan_vars, pc, db, sent, query, last_call, first_report, cursor>>

\* self.cursor.execute(query_text): on another thread than the engine's, and
\* on a statement SQLite rejects, sqlite3.Error is raised and caught
Execute(c) ==
    /\ in_flight[c].at = "execute"
    /\ sent' = sent \cup {in_flight[c].query_text}
    /\ IF \/ in_flight[c].thread # engine_thread
          \/ sqlite_execute(db, in_flight[c].query_text).status = "error"
       THEN /\ in_flight' = [in_flight EXCEPT ![c].at = "return",
                                              ![c].run = execution_error(db)]
            /\ UNCHANGED <<db, cursor>>
       ELSE /\ in_flight' = [in_flight EXCEPT ![c].at = "fetchall"]
            /\ db' = sqlite_execute(db, in_flight[c].query_text).db
            /\ cursor' = [statement |-> in_flight[c].query_text, fetched |-> FALSE]
    /\ UNCHANGED <<kb_vars, plan_vars, pc, calls, query, last_call, first_report>>

\* results = self.cursor.fetchall(): the rows the cursor's statement has left
FetchAll(c) ==
    /\ in_flight[c].at = "fetchall"
    /\ in_flight' = [in_flight EXCEPT
          ![c].at = "description",
          ![c].results = IF cursor.fetched \/ cursor.statement \in sqlite_writes
                         THEN <<>> ELSE << cursor.statement >>]
    /\ cursor' = [cursor EXCEPT !.fetched = TRUE]
    /\ UNCHANGED <<kb_vars, plan_vars, pc, db, sent, calls, query, last_call, first_report>>

\* columns = [desc[0] for desc in self.cursor.description] and the return of
\* the result dict; the description of a statement without a result set is
\* None, and iterating it raises TypeError
Description(c) ==
    /\ in_flight[c].at = "description"
    /\ in_flight' = [in_flight EXCEPT
          ![c].at = "return",
          ![c].run =
              IF cursor.statement \in sqlite_writes
              THEN [raised |-> TRUE, sent |-> TRUE, db |-> db, error |-> <<>>, result |-> <<>>]
              ELSE [raised |-> FALSE, sent |-> TRUE, db |-> db, error |-> <<>>,
                    result |-> << result_read(db, cursor.statement, in_flight[c].results) >>]]
    /\ UNCHANGED <<kb_vars, plan_vars, pc, db, sent, calls, query, last_call, first_report, cursor>>

\* the rest of analyze_query after _try_execute_query, and its return
ReturnCall(c) ==
    /\ in_flight[c].at = "return"
    /\ query' = in_flight[c].query_text
    /\ last_call' = analyze_with(in_flight[c].query_text, error_patterns,
                                 DOMAIN ontology_error_patterns, schema, feedback_messages,
                                 sql_concepts, hash_order, db, in_flight[c].run)
    /\ in_flight' = [in_flight EXCEPT ![c] = not_running]
    /\ UNCHANGED <<kb_vars, plan_vars, pc, db, sent, calls, first_report, cursor>>

\* up to MaxCalls calls by the two callers, their steps in any order
NextConcurrent ==
    \E c \in Callers :
        \/ \E thread \in Threads, q \in ConcurrentQueries :
              calls < MaxCalls /\ StartCall(c, thread, q)
        \/ Execute(c)
        \/ FetchAll(c)
        \/ Description(c)
        \/ ReturnCall(c)

SpecConcurrent == Init /\ [][NextConcurrent]_vars

-----------------------------------------------------------------------------
(* What the specification says of the engine and the planner.              *)

\* the last analysis returned a Report
reported == calls > 0 /\ outcome = "report"

\* the Report holds a finding of the named pattern
has_finding(name) == \E i \in DOMAIN feedback.errors : feedback.errors[i].name = name

\* the query holds one of the gate's words, in any case
holds_gate_word(text) ==
    \E k \in DOMAIN destructive_keywords : Contains(Upper(text), destructive_keywords[k])

\* C1: a query whose uppercased text contains DROP, DELETE, UPDATE, INSERT,
\* ALTER, CREATE or TRUNCATE is never handed to the sandbox executor, and the
\* Report returned for it holds a SECURITY_ERROR finding of severity HIGH, no
\* execution_result, and the verdict INCORRECT.
C1_DestructiveGate ==
    (calls > 0 /\ holds_gate_word(query)) =>
        /\ query \notin sent
        /\ outcome = "report" =>
              /\ \E i \in DOMAIN feedback.errors :
                    /\ feedback.errors[i].type = tySECURITY_ERROR
                    /\ feedback.errors[i].severity = "HIGH"
              /\ feedback.execution_result = <<>>
              /\ feedback.correctness = "INCORRECT"

\* C2: after any sequence of analyze_query calls the sample database holds
\* what it held right after construction.
C2_DatabaseUnchanged == db = initial_db

\* C3: for every input, analyze_query returns a Report: no check lets an
\* exception out.
C3_AlwaysReport == calls > 0 => outcome = "report"

\* the verdict the specification derives from a list of findings
derived_verdict(findings) ==
    IF findings = <<>> THEN "CORRECT"
    ELSE IF \E i \in DOMAIN findings : findings[i].severity = "HIGH" THEN "INCORRECT"
    ELSE "PARTIAL"

\* C4: in every Report, those of the empty-input and parse-failure exits
\* included, the verdict is CORRECT, INCORRECT or PARTIAL, and is the one
\* derived from the final list of findings.
C4_VerdictDerived ==
    reported => feedback.correctness = derived_verdict(feedback.errors)

\* ClauseSegmenter's SELECT clause: from SELECT to the next clause keyword
\* present, in canonical order, or to the end of the text
segment_select(text) ==
    LET u       == Upper(text)
        start   == Find(u, kwSELECT, 1)
        present == SelectSeq(Tail(clause_keywords), LAMBDA kw : Contains(u, kw))
        stop    == IF present = <<>> THEN Len(u) + 1 ELSE Find(u, present[1], 1)
    IN  IF start = 0 THEN <<>> ELSE SubSeq(u, start, stop - 1)

\* position i of s starts a call of func: the name, not inside a longer
\* word, then optional white space, then "("
call_at(s, func, i) ==
    /\ MatchAt(s, func, i)
    /\ (i = 1 \/ ~IsWordChar(s[i - 1]))
    /\ \E j \in (i + Len(func))..Len(s) :
          /\ s[j] = "("
          /\ \A m \in (i + Len(func))..(j - 1) : s[m] \in WhiteSpace

\* the clause holds a call of COUNT, SUM, AVG, MIN or MAX
aggregate_call_in(clause) ==
    \E k \in DOMAIN aggregate_functions, i \in 1..Len(clause) :
        call_at(clause, aggregate_functions[k], i)

\* C5: missing_group_by fires exactly when the query has no GROUP BY, its
\* SELECT clause holds a call of an aggregate function, and an identifier
\* remains in the SELECT clause once aggregate calls, AS aliases, keywords and
\* numbers are removed.
C5_MissingGroupByExact ==
    reported =>
        (has_finding("missing_group_by") <=>
            /\ ~Contains(Upper(query), kwGROUP_BY)
            /\ aggregate_call_in(segment_select(query))
            /\ extract_columns_from_select(segment_select(query)) # <<>>)

\* the number of "(" less the number of ")" in the first i characters of s
paren_level(s, i) ==
    Cardinality({j \in 1..i : s[j] = "("}) - Cardinality({j \in 1..i : s[j] = ")"})

\* s is an identifier
is_identifier(s) ==
    /\ s # <<>>
    /\ s[1] \notin Digits
    /\ \A i \in 1..Len(s) : IsWordChar(s[i])

\* one element of a SELECT list is an aggregate expression: a call of an
\* aggregate function, then nothing or AS and an alias
is_aggregate_expression(item) ==
    LET t == Strip(item)
    IN  \E k \in DOMAIN aggregate_functions :
            /\ call_at(t, aggregate_functions[k], 1)
            /\ \E close \in 1..Len(t) :
                  /\ t[close] = ")"
                  /\ paren_level(t, close) = 0
                  /\ \A j \in 1..(close - 1) : t[j] = ")" => paren_level(t, j) > 0
                  /\ LET rest == Strip(SubSeq(t, close + 1, Len(t)))
                     IN  \/ rest = <<>>
                         \/ /\ Len(rest) > 3
                            /\ StartsWith(rest, kwAS)
                            /\ rest[3] \in WhiteSpace
                            /\ is_identifier(Strip(SubSeq(rest, 4, Len(rest))))

\* the SELECT list of the query holds aggregate expressions only
purely_aggregate(text) ==
    LET clause == segment_select(text)
        items  == SplitOn(SubSeq(clause, Len(kwSELECT) + 1, Len(clause)), ",")
    IN  /\ clause # <<>>
        /\ \A n \in DOMAIN items : is_aggregate_expression(items[n])

\* C6: a query without GROUP BY whose SELECT list holds aggregate expressions
\* only never gets a missing_group_by finding.
C6_PureAggregateExempt ==
    (reported /\ ~Contains(Upper(query), kwGROUP_BY) /\ purely_aggregate(query))
        => ~has_finding("missing_group_by")

\* the clause keywords present in the text appear in it in canonical order
in_canonical_order(text) ==
    LET u == Upper(text)
    IN  \A a, b \in DOMAIN clause_keywords :
            (a < b /\ Contains(u, clause_keywords[a]) /\ Contains(u, clause_keywords[b]))
                => Find(u, clause_keywords[a], 1) < Find(u, clause_keywords[b], 1)

\* C7: the Report holds a clause-order finding, a SYNTAX_ERROR of severity
\* MEDIUM, exactly when the clause keywords present in the query do not appear
\* in canonical order.
C7_ClauseOrder ==
    reported =>
        ((\E i \in DOMAIN feedback.errors :
              /\ feedback.errors[i].name = "clause_order"
              /\ feedback.errors[i].type = tySYNTAX_ERROR
              /\ feedback.errors[i].severity = "MEDIUM")
         <=> ~in_canonical_order(query))

\* C8: analyze_query called again on the same engine with the input of an
\* earlier call returns the Report that call returned, whatever calls were
\* made in between.
C8_Idempotent ==
    (reported /\ first_report # <<>> /\ first_report[1].query = query)
        => feedback = first_report[1].feedback

\* C9: the walk along the prerequisites stops at a key that is absent from
\* the concept table or was met before: it appends no key twice, and no more
\* keys than the table holds.
C9_WalkEnds ==
    pc = "walk" =>
        /\ Len(prerequisites) <= Cardinality(DOMAIN sql_concepts)
        /\ \A i, j \in DOMAIN prerequisites : i # j => prerequisites[i] # prerequisites[j]

\* the concepts of the table that the concepts of S name as prerequisite
parents(concepts, S) ==
    {concepts[c].prerequisite : c \in S \cap DOMAIN concepts} \cap DOMAIN concepts

RECURSIVE above(_, _, _)
\* the concepts reached from S by one to n prerequisite links
above(concepts, S, n) ==
    IF n = 0 THEN {}
    ELSE parents(concepts, S) \cup above(concepts, parents(concepts, S), n - 1)

\* every ancestor of c on its prerequisite chain
ancestors(concepts, c) == above(concepts, {c}, Cardinality(DOMAIN concepts))

\* no concept is its own ancestor
acyclic(concepts) == \A c \in DOMAIN concepts : c \notin ancestors(concepts, c)

\* suggest_learning_path has returned
planned == pc = "idle" /\ calls > 0 /\ current_errors \in ErrorLists

\* C10: on an acyclic concept table the learning path holds every selected
\* concept and every ancestor of it, holds no key twice, and is sorted by
\* ascending difficulty.
C10_LearningPath ==
    (planned /\ acyclic(sql_concepts)) =>
        /\ \A c \in concepts_needed :
              /\ c \in Range(learning_path)
              /\ ancestors(sql_concepts, c) \subseteq Range(learning_path)
        /\ \A i, j \in DOMAIN learning_path : i # j => learning_path[i] # learning_path[j]
        /\ \A i \in 1..(Len(learning_path) - 1) :
              difficulty_of(sql_concepts, learning_path[i])
                  <= difficulty_of(sql_concepts, learning_path[i + 1])

\* two findings of one type selected the same concepts, and the path returned
\* holds them and an ancestor that no finding selected, three difficulties apart
C10_Witness ==
    /\ planned
    /\ acyclic(sql_concepts)
    /\ Len(current_errors) = 2
    /\ current_errors[1] = current_errors[2]
    /\ concepts_needed = {"aggregate_functions_concept", "group_by_concept"}
    /\ Len(learning_path) = 3
    /\ learning_path[1] = "select_concept"
    /\ difficulty_of(sql_concepts, learning_path[1])
           < difficulty_of(sql_concepts, learning_path[3])

-----------------------------------------------------------------------------
(* The lookup from finding categories to concepts.                         *)

\* the concepts the lookup table gives for one category: those of every
\* word of the table the category contains
table_concepts(error_type) ==
    LET category == Lower(error_type)
        has(word) == Contains(category, word)
    IN  (IF has(<<"a","g","g","r","e","g","a","t","e">>)
         THEN {"aggregate_functions_concept", "group_by_concept"} ELSE {})
        \cup (IF has(<<"g","r","o","u","p">>) \/ has(<<"h","a","v","i","n","g">>)
              THEN {"group_by_concept", "having_clause_concept"} ELSE {})
        \cup (IF has(<<"j","o","i","n">>) THEN {"join_concept"} ELSE {})
        \cup (IF has(<<"w","h","e","r","e">>) THEN {"where_clause_concept"} ELSE {})

\* C11: the concepts suggest_learning_path selects for a list of finding
\* categories are those the lookup table gives for every word each category
\* contains: a category that holds several words selects the concepts of
\* each of them, one that holds none selects nothing.
C11_LookupEveryKeyword ==
    pc # "idle" =>
        concepts_needed = UNION {table_concepts(current_errors[i]) : i \in DOMAIN current_errors}


-----------------------------------------------------------------------------
(* The order of the learning path.                                         *)

\* the concepts one error type selects, in the order the planner adds them
selected_in_order(error_type) ==
    LET error_type_lower == Lower(error_type)
    IN  IF Contains(error_type_lower, <<"a","g","g","r","e","g","a","t","e">>)
        THEN <<"aggregate_functions_concept", "group_by_concept">>
        ELSE IF \/ Contains(error_type_lower, <<"g","r","o","u","p">>)
                \/ Contains(error_type_lower, <<"h","a","v","i","n","g">>)
        THEN <<"group_by_concept", "having_clause_concept">>
        ELSE IF Contains(error_type_lower, <<"j","o","i","n">>)
        THEN <<"join_concept">>
        ELSE IF Contains(error_type_lower, <<"w","h","e","r","e">>)
        THEN <<"where_clause_concept">>
        ELSE <<>>

RECURSIVE selections_from(_, _)
\* the selections of the error types from the k-th on, one after the other
selections_from(errors, k) ==
    IF k > Len(errors) THEN <<>>
    ELSE selected_in_order(errors[k]) \o selections_from(errors, k + 1)

RECURSIVE chains_from(_, _, _)
\* the prerequisite chains of the selected concepts from the k-th on
chains_from(concepts, selected, k) ==
    IF k > Len(selected) THEN <<>>
    ELSE get_concept_prerequisites(concepts, selected[k]) \o chains_from(concepts, selected, k + 1)

\* every concept of the path with the place of its insertion: the concepts
\* selected from the findings first, then the prerequisites added for them
insertion_place(errors, concepts) ==
    LET selected == selections_from(errors, 1)
        inserted == selected \o chains_from(concepts, selected, 1)
    IN  [c \in Range(inserted) |-> SetMin({i \in DOMAIN inserted : inserted[i] = c})]

\* C26: in the learning path, concepts of equal difficulty (a selected key
\* that the concept table lacks counts as difficulty 1) stand in the order
\* of their insertion: first selected from the findings, then added as
\* prerequisites.
C26_TiesInInsertionOrder ==
    (planned /\ acyclic(sql_concepts)) =>
        \A i, j \in DOMAIN learning_path :
            (/\ i < j
             /\ difficulty_of(sql_concepts, learning_path[i])
                    = difficulty_of(sql_concepts, learning_path[j]))
                => insertion_place(current_errors, sql_concepts)[learning_path[i]]
                       < insertion_place(current_errors, sql_concepts)[learning_path[j]]
-----------------------------------------------------------------------------
(* The executor's errors.                                                  *)

\* the last call sent its query to the sandbox and sqlite3.Error came back
\* (an error leaves the database as it was)
executor_failed ==
    /\ calls > 0
    /\ last_call.sent
    /\ sqlite_execute(db, query).status = "error"

\* the findings of a Report that carry the given type
findings_of_type(type) == SelectSeq(feedback.errors, LAMBDA e : e.type = type)

\* C12: when the sandbox executor returns an error for a query that passed
\* the gate, analyze_query still returns a Report: it holds exactly one
\* EXECUTION_ERROR finding, of severity HIGH, no execution result, the
\* suggestions synthesized for the query, and the learning path of all its
\* findings, the EXECUTION_ERROR one included.
C12_ExecutionErrorCaptured ==
    executor_failed =>
        /\ outcome = "report"
        /\ Len(findings_of_type(tyEXECUTION_ERROR)) = 1
        /\ findings_of_type(tyEXECUTION_ERROR)[1].severity = "HIGH"
        /\ feedback.execution_result = <<>>
        /\ feedback.suggestions =
               generate_ontology_suggestions(feedback_messages, query, parsed_str(query)).value
        /\ feedback.learning_path =
               suggest_learning_path([i \in DOMAIN feedback.errors |-> feedback.errors[i].type],
                                     sql_concepts, hash_order)

\* an executor error in a Report that also holds other findings, suggestions
\* and a learning path
C12_Witness ==
    /\ executor_failed
    /\ outcome = "report"
    /\ Len(feedback.errors) > 1
    /\ feedback.suggestions # <<>>
    /\ feedback.learning_path # <<>>

-----------------------------------------------------------------------------
(* The checks one by one: when each fires.                                 *)

\* the text without its leading white space
without_leading_space(text) ==
    LET solid == {i \in DOMAIN text : text[i] \notin WhiteSpace}
    IN  IF solid = {} THEN <<>> ELSE SubSeq(text, SetMin(solid), Len(text))

\* the text starts with SELECT, leading white space and case set aside
starts_with_select(text) == StartsWith(Upper(without_leading_space(text)), kwSELECT)

\* the Report holds the finding of the given check with this type and severity
has_finding_as(name, type, severity) ==
    \E i \in DOMAIN feedback.errors :
        /\ feedback.errors[i].name = name
        /\ feedback.errors[i].type = type
        /\ feedback.errors[i].severity = severity

\* C13: the Report of a query that is not empty holds the missing_select
\* finding (SYNTAX_ERROR, HIGH) when the query, leading white space removed
\* and case ignored, does not start with SELECT, and does not hold it when
\* the query does start with SELECT.
C13_MissingSelect ==
    (reported /\ Strip(query) # <<>>) =>
        /\ ~starts_with_select(query) =>
               has_finding_as("missing_select", tySYNTAX_ERROR, "HIGH")
        /\ starts_with_select(query) => ~has_finding("missing_select")

\* C14: missing_aggregate_with_group_by fires exactly when GROUP BY is present
\* and the SELECT clause holds no call of COUNT, SUM, AVG, MIN or MAX; an
\* aggregate call outside the SELECT clause, in HAVING, does not keep it from
\* firing.
C14_MissingAggregateExact ==
    reported =>
        (has_finding("missing_aggregate_with_group_by") <=>
            /\ Contains(Upper(query), kwGROUP_BY)
            /\ ~aggregate_call_in(segment_select(query)))

\* ClauseSegmenter's GROUP BY clause, its keyword left out: from GROUP BY to
\* the next clause keyword present after it, or to the end of the text
segment_group_by(text) ==
    LET u       == Upper(text)
        start   == Find(u, kwGROUP_BY, 1)
        later   == SelectSeq(<<kwHAVING, kwORDER_BY>>, LAMBDA kw : Find(u, kw, start) # 0)
        stop    == IF later = <<>> THEN Len(u) + 1 ELSE Find(u, later[1], start)
    IN  IF start = 0 THEN <<>> ELSE SubSeq(u, start + Len(kwGROUP_BY), stop - 1)

\* the full column set of a clause: ColumnExtractor's extractAll, in upper case
column_set(clause) ==
    {Upper(c) : c \in Range(extract_all_columns_from_select(clause))}

\* C15: group_by_column_not_in_select fires exactly when GROUP BY is present
\* and a column of the GROUP BY clause is, case set aside, absent from the
\* full column set of the SELECT clause; GROUP BY columns that are all
\* written in SELECT, bare, with a table qualifier or right before the
\* statement's semicolon, do not make it fire.
C15_GroupByColumnExact ==
    reported =>
        (has_finding("group_by_column_not_in_select") <=>
            /\ Contains(Upper(query), kwGROUP_BY)
            /\ ~(column_set(segment_group_by(query)) \subseteq column_set(segment_select(query))))

\* the places of the text where the column occurs as a word, case set aside
occurrences(text, col) ==
    LET s == Lower(text)
    IN  {i \in 1..Len(s) :
            /\ MatchAt(s, col, i)
            /\ (i = 1 \/ ~IsWordChar(s[i - 1]))
            /\ (i + Len(col) > Len(s) \/ ~IsWordChar(s[i + Len(col)]))}

\* the word at place i has a qualifier in front of it: a name and a dot
qualified_at(text, i) == i > 2 /\ text[i - 1] = "." /\ IsWordChar(text[i - 2])

\* a column that more than one of the query's tables holds occurs in the
\* query without a qualifier
ambiguous_use(text, tbl_schema) ==
    LET tables == extract_table_names(parsed_str(text)).value
    IN  \E col \in ambiguous_cols(tables, tbl_schema) :
            \E i \in occurrences(text, col) : ~qualified_at(text, i)

\* C16: ambiguous_column fires exactly when the query names two tables or
\* more, a column is in the schema of more than one of them, and some
\* occurrence of that column in the text has no table or alias qualifier in
\* front of it: a column qualified wherever it occurs does not fire it, a
\* column qualified where it occurs first and bare later does.
C16_AmbiguousColumnExact ==
    reported => (has_finding("ambiguous_column") <=> ambiguous_use(query, schema))

-----------------------------------------------------------------------------
(* The schema check.                                                       *)

\* the known tables whose name contains the given one or is contained in it
close_tables(table_name, tbl_schema) ==
    {key \in schema_keys(tbl_schema) :
        Contains(key, Lower(table_name)) \/ Contains(Lower(table_name), key)}

\* the schema_table_exists findings of the Report that name the table
schema_findings(table_name) ==
    SelectSeq(feedback.errors,
        LAMBDA e : e.name = "schema_table_exists" /\ e.args[1] = table_name)

\* a known table's name with one letter left out
misspelt == <<"E","M","P","L","O","Y","E","S">>

-----------------------------------------------------------------------------
(* Suggestions and the verdict.                                            *)

\* the suggestions of the Report that are positive ones
positive_places == {i \in DOMAIN feedback.suggestions : feedback.suggestions[i].type = "SUCCESS"}

\* the advisory suggestions synthesized for the query, whatever its findings
advisory(text) == generate_ontology_suggestions(feedback_messages, text, parsed_str(text)).value

\* C18: the suggestions of a Report with the verdict CORRECT are one positive
\* suggestion followed by the advisory suggestions in the order they were
\* synthesized, and a Report with another verdict holds no positive
\* suggestion; the advisory suggestions are those the triggers give for the
\* query text, whatever the findings.
C18_PositiveTracksVerdict ==
    reported =>
        IF feedback.correctness = "CORRECT"
        THEN /\ positive_places = {1}
             /\ Tail(feedback.suggestions) = advisory(query)
        ELSE /\ positive_places = {}
             /\ feedback.correctness # "UNKNOWN" => feedback.suggestions = advisory(query)

\* a correct query that also gets advice
C18_Witness ==
    /\ reported
    /\ feedback.correctness = "CORRECT"
    /\ Len(feedback.suggestions) > 1

-----------------------------------------------------------------------------
(* Empty input.                                                            *)

\* the text holds white space only, or nothing
blank(text) == \A i \in DOMAIN text : text[i] \in WhiteSpace

\* C19: for an empty or whitespace-only input the Report holds one finding,
\* of type EMPTY_INPUT and severity LOW, no suggestions, an empty learning
\* path and no execution result, and the input is not handed to the sandbox
\* executor, whose database stays as it was.
C19_EmptyInput ==
    (calls > 0 /\ blank(query)) =>
        /\ outcome = "report"
        /\ Len(feedback.errors) = 1
        /\ feedback.errors[1].type = tyEMPTY_INPUT
        /\ feedback.errors[1].severity = "LOW"
        /\ feedback.suggestions = <<>>
        /\ feedback.learning_path = <<>>
        /\ feedback.execution_result = <<>>
        /\ ~last_call.sent
        /\ query \notin sent
        /\ db = initial_db

\* the Report of a whitespace-only input
C19_Witness ==
    /\ reported
    /\ query = q_blank
    /\ feedback.errors # <<>>


\* the Report analyze_query(text) returns when no other call runs on the
\* engine
report_alone(text) ==
    analyze_query(text, error_patterns, DOMAIN ontology_error_patterns, schema,
                  feedback_messages, sql_concepts, hash_order, db).feedback

\* C20: analyze_query is reentrant: a call that returns while another call
\* is running on the engine, whatever the order of their steps on the
\* cursor, returns the Report it returns when it runs alone, and so an
\* execution_result with the columns, rows and row count of its own query
C20_Reentrant ==
    [][\A c \in Callers :
          (ReturnCall(c) /\ \E d \in Callers \ {c} : in_flight[d].at # "idle")
              => last_call'.feedback = report_alone(in_flight[c].query_text)]_vars

-----------------------------------------------------------------------------
(* The WHERE clause.                                                       *)

\* the places of the upper-case text where the keyword stands as a word
keyword_places(u, kw) ==
    {i \in 1..Len(u) :
        /\ MatchAt(u, kw, i)
        /\ (i = 1 \/ ~IsWordChar(u[i - 1]))
        /\ (i + Len(kw) > Len(u) \/ ~IsWordChar(u[i + Len(kw)]))}

\* the WHERE clause text: from the WHERE keyword up to the next GROUP BY,
\* HAVING or ORDER BY keyword, or the end of the query; empty without WHERE
where_clause_text(text) ==
    LET u       == Upper(text)
        starts  == keyword_places(u, kwWHERE)
        from(s) == LET ends == {i \in UNION {keyword_places(u, kw) :
                                              kw \in {kwGROUP_BY, kwHAVING, kwORDER_BY}} : i > s}
                   IN  SubSeq(u, s, IF ends = {} THEN Len(u) ELSE SetMin(ends) - 1)
    IN  IF starts = {} THEN <<>> ELSE from(SetMin(starts))

\* C21: aggregate_in_where fires exactly when the WHERE clause text holds one
\* of COUNT(, SUM(, AVG(, MIN(, MAX(; a query without WHERE, and an aggregate
\* call that is only in SELECT or only in HAVING, do not make it fire.
C21_AggregateInWhereExact ==
    (reported /\ ~parse_fails(query)) =>
        (has_finding("aggregate_in_where") <=>
            \E k \in DOMAIN aggregate_functions :
                Contains(where_clause_text(query), aggregate_functions[k] \o <<"(">>))

-----------------------------------------------------------------------------
(* What the calls leave of the engine's knowledge.                         *)

\* the knowledge of the engine is what construction from kb made of it
as_constructed_from(kb) ==
    /\ schema = kb.schema_tables
    /\ ontology_error_patterns = kb.error_patterns
    /\ error_patterns = initialize_error_patterns(kb.error_patterns)
    /\ feedback_messages = kb.feedback_messages
    /\ sql_concepts = kb.sql_concepts

\* C22: no analyze_query call changes the knowledge base or the schema: after
\* any sequence of calls the schema, the error patterns (the ontology's and
\* the engine's catalog), the suggestion templates and the concept table are
\* what they were right after construction.
C22_KnowledgeUnchanged ==
    \E kb \in KnowledgeBases : as_constructed_from(kb)

\* a session on the engine that holds knowledge, several calls long, whose
\* last call made a finding out of a pattern of the catalog and wrote to the
\* database
C22_Witness ==
    /\ calls > 1
    /\ as_constructed_from(kb_tutor)
    /\ reported
    /\ has_finding("missing_select")
    /\ db # initial_db

-----------------------------------------------------------------------------
(* The executor and the findings.                                          *)

\* the findings of the Report made by the syntax, semantic and schema checks
check_findings ==
    SelectSeq(feedback.errors,
              LAMBDA e : e.name \in Range(pattern_keys) \cup {"clause_order", "schema_table_exists"})

\* C23: the executor is gated by the findings: the query is sent to it only
\* if the syntax, semantic and schema checks made no finding of severity
\* HIGH, so a Report that holds such a finding holds no execution_result.
C23_ExecutionGatedByFindings ==
    (reported /\ \E i \in DOMAIN check_findings : check_findings[i].severity = "HIGH") =>
        /\ ~last_call.sent
        /\ feedback.execution_result = <<>>

-----------------------------------------------------------------------------
(* The suggestions one by one.                                             *)

\* the suggestion templates of the knowledge base whose key holds the tag
templates_tagged(tag) ==
    {feedback_messages[i] : i \in {j \in DOMAIN feedback_messages :
                                      Contains(Lower(feedback_messages[j].key), tag)}}

\* the Report holds the suggestion of the template
suggested(template) ==
    \E i \in DOMAIN feedback.suggestions :
        /\ feedback.suggestions[i].message = template.key
        /\ feedback.suggestions[i].source = "ontology"

\* the tables the query references: those TableResolver returns
tables_referenced(text) == Range(extract_table_names(parsed_str(text)).value)

\* C24: with a suggestion template tagged multi-table-without-JOIN in the
\* knowledge base, the Report of a query that references more than one table
\* and holds no JOIN keyword holds that suggestion, and the Report of a query
\* that holds JOIN does not.
C24_JoinSuggestion ==
    (reported /\ ~parse_fails(query)) =>
        \A template \in templates_tagged(<<"j","o","i","n">>) :
            /\ (Cardinality(tables_referenced(query)) > 1 /\ ~Contains(Upper(query), kwJOIN))
                   => suggested(template)
            /\ Contains(Upper(query), kwJOIN) => ~suggested(template)

\* the query went through the analysis: it is not empty and it parses
analysed == reported /\ ~is_empty_input(query) /\ ~parse_fails(query)

\* C25: with a suggestion template tagged ORDER_BY-absent in the knowledge
\* base, the Report holds that suggestion exactly when the query holds no
\* ORDER BY, with or without GROUP BY and whatever the findings.
C25_OrderBySuggestion ==
    analysed =>
        \A template \in templates_tagged(<<"o","r","d","e","r","_","b","y">>) :
            suggested(template) <=> ~Contains(Upper(query), kwORDER_BY)

\* C25, amended: the Report holds the suggestion of a template tagged
\* ORDER_BY-absent exactly when the query holds neither ORDER BY nor
\* GROUP BY, whatever the findings.
C25_OrderBySuggestionUngrouped ==
    analysed =>
        \A template \in templates_tagged(<<"o","r","d","e","r","_","b","y">>) :
            suggested(template) <=>
                (~Contains(Upper(query), kwORDER_BY) /\ ~Contains(Upper(query), kwGROUP_BY))

\* a Report with findings on a query with GROUP BY and without ORDER BY, by
\* the engine whose knowledge base holds the template: the suggestion is not
\* in it
C25_Witness ==
    /\ analysed
    /\ templates_tagged(<<"o","r","d","e","r","_","b","y">>) # {}
    /\ Contains(Upper(query), kwGROUP_BY)
    /\ ~Contains(Upper(query), kwORDER_BY)
    /\ feedback.errors # <<>>
    /\ \A template \in templates_tagged(<<"o","r","d","e","r","_","b","y">>) : ~suggested(template)

-----------------------------------------------------------------------------
(* TableResolver.                                                          *)

\* the first place after `from` where one of the keywords stands as a word,
\* or the place after the end of the text
next_keyword(u, keywords, from) ==
    LET places == {i \in UNION {keyword_places(u, kw) : kw \in keywords} : i > from}
    IN  IF places = {} THEN Len(u) + 1 ELSE SetMin(places)

\* the first white-space-delimited token of every comma-separated part
first_tokens(clause) ==
    LET parts == SplitOn(clause, ",")
    IN  [i \in DOMAIN parts |->
            IF SplitWords(Strip(parts[i])) = <<>> THEN <<>> ELSE SplitWords(Strip(parts[i]))[1]]

\* the tables of the FROM clause: the clause runs from FROM to the next
\* clause keyword or JOIN
from_clause_tables(u) ==
    LET starts == keyword_places(u, kwFROM)
        clause(s) == SubSeq(u, s + Len(kwFROM),
                            next_keyword(u, {kwWHERE, kwGROUP_BY, kwHAVING, kwORDER_BY, kwJOIN}, s) - 1)
    IN  IF starts = {} THEN <<>> ELSE first_tokens(clause(SetMin(starts)))

\* the tables of the JOIN...ON spans: for each JOIN keyword that an ON
\* keyword follows, the first token between the two
join_span_tables(u) ==
    LET joins   == {i \in keyword_places(u, kwJOIN) : next_keyword(u, {kwON}, i) <= Len(u)}
        ordered == iteration_order(joins, [i \in 1..Len(u) |-> i])
    IN  [n \in DOMAIN ordered |->
            first_tokens(SubSeq(u, ordered[n] + Len(kwJOIN),
                                next_keyword(u, {kwON}, ordered[n]) - 1))[1]]

\* tables(raw) as the specification has it
tables_of(text) ==
    SelectSeq(from_clause_tables(Upper(text)) \o join_span_tables(Upper(text)),
              LAMBDA tbl : tbl # <<>> /\ tbl \notin join_type_keywords)

\* the table names of the schema findings of the Report, in their order
tables_not_found ==
    LET found == SelectSeq(feedback.errors, LAMBDA e : e.name = "schema_table_exists")
    IN  [i \in DOMAIN found |-> found[i].args[1]]

\* C27: the tables resolved for a query are, in this order and with
\* duplicates, the first token of every comma-separated part of the FROM
\* clause and the first token of every JOIN...ON span, join-type keywords
\* left out: the token after JOIN is the whole table name, also when the name
\* holds the letters ON, and never an alias.  The schema check reports the
\* resolved tables the schema lacks, so the tables its findings name are the
\* unknown ones among these.
C27_TablesResolved ==
    analysed =>
        tables_not_found =
            SelectSeq(tables_of(query), LAMBDA tbl : Lower(tbl) \notin schema_keys(schema))

-----------------------------------------------------------------------------
(* The categories of the findings and the learning path.                   *)

\* the knowledge base gives none of the error patterns a type of its own
types_not_overridden ==
    \A k \in DOMAIN ontology_error_patterns \cap Range(pattern_keys) :
        ontology_error_patterns[k].type = builtin_patterns[k].type

\* the categories of the checks, the gate and the executor
check_categories ==
    {tySYNTAX_ERROR, tySEMANTIC_ERROR, tySCHEMA_ERROR, tySECURITY_ERROR, tyEXECUTION_ERROR}

\* the words the planner looks for in a category
planner_words ==
    { <<"a","g","g","r","e","g","a","t","e">>, <<"g","r","o","u","p">>,
      <<"h","a","v","i","n","g">>, <<"j","o","i","n">>, <<"w","h","e","r","e">> }

\* no category of the set holds a word of the planner
name_no_concept(categories) ==
    \A c \in categories, w \in planner_words : ~Contains(Lower(c), w)

\* C28: when the knowledge base overrides the type of no error pattern, the
\* categories of the findings of a Report are SYNTAX_ERROR, SEMANTIC_ERROR,
\* SCHEMA_ERROR, SECURITY_ERROR and EXECUTION_ERROR only, none of which holds
\* aggregate, group, having, join or where, and the learning path of the
\* Report is empty.
C28_BuiltinCategories ==
    (reported /\ types_not_overridden) =>
        /\ \A i \in DOMAIN feedback.errors : feedback.errors[i].type \in check_categories
        /\ name_no_concept(check_categories)
        /\ feedback.learning_path = <<>>

\* C28, amended: when the knowledge base overrides the type of no error
\* pattern, the categories of the findings of a Report are those five and,
\* in the Reports of the two early exits, EMPTY_INPUT and PARSE_ERROR; none
\* of the seven holds aggregate, group, having, join or where, and the
\* learning path of the Report is empty.
C28_BuiltinCategoriesAndExits ==
    (reported /\ types_not_overridden) =>
        /\ \A i \in DOMAIN feedback.errors :
              \/ feedback.errors[i].type \in check_categories
              \/ /\ feedback.errors[i].type \in {tyEMPTY_INPUT, tyPARSE_ERROR}
                 /\ ~analysed
        /\ name_no_concept(check_categories \cup {tyEMPTY_INPUT, tyPARSE_ERROR})
        /\ feedback.learning_path = <<>>

\* a Report, without overridden types, whose findings are about an aggregate
\* in WHERE and a HAVING without GROUP BY, and whose learning path is empty
C28_Witness ==
    /\ reported
    /\ types_not_overridden
    /\ has_finding("aggregate_in_where")
    /\ has_finding("having_without_group")
    /\ feedback.learning_path = <<>>

-----------------------------------------------------------------------------
(* The execution result and the findings of the gate and the executor.     *)

\* the Report holds a finding of the gate or of the executor
refused_or_failed ==
    \E i \in DOMAIN feedback.errors :
        feedback.errors[i].type \in {tySECURITY_ERROR, tyEXECUTION_ERROR}

-----------------------------------------------------------------------------
(* The order of the stages in the findings.                                *)

\* the stage that makes the finding: 1 the syntax check, 2 the semantic
\* checks, 3 the schema check, 4 the gate and the executor
stage_of(finding) ==
    CASE finding.name \in {"missing_select", "clause_order"} -> 1
      [] finding.name \in Range(pattern_keys) \ {"missing_select"} -> 2
      [] finding.name = "schema_table_exists" -> 3
      [] finding.name \in {"security", "execution"} -> 4
      [] OTHER -> 0

\* the place of a finding within its stage: missing_select before
\* clause_order, and the semantic checks as registered
place_in_stage(finding) ==
    IF finding.name = "clause_order" THEN 2
    ELSE IF finding.name \in Range(pattern_keys)
    THEN CHOOSE k \in DOMAIN pattern_keys : pattern_keys[k] = finding.name
    ELSE 0

\* C30: the findings of a Report record the order of the stages: the syntax
\* findings (missing_select, then clause_order), the semantic findings in
\* the order their checks are registered, the schema findings in the order of
\* the resolved tables, and last at most one SECURITY_ERROR or
\* EXECUTION_ERROR finding; the positive suggestion, the learning path and
\* the verdict are those of the whole list, the last finding included.
C30_StagesInOrder ==
    analysed =>
        /\ \A i \in DOMAIN feedback.errors : stage_of(feedback.errors[i]) \in 1..4
        /\ \A i, j \in DOMAIN feedback.errors :
              i < j =>
                 /\ stage_of(feedback.errors[i]) <= stage_of(feedback.errors[j])
                 /\ (stage_of(feedback.errors[i]) = stage_of(feedback.errors[j])
                        /\ stage_of(feedback.errors[i]) \in {1, 2})
                       => place_in_stage(feedback.errors[i]) < place_in_stage(feedback.errors[j])
                 /\ stage_of(feedback.errors[i]) # 4
        /\ tables_not_found =
               SelectSeq(extract_table_names(parsed_str(query)).value,
                         LAMBDA tbl : Lower(tbl) \notin schema_keys(schema))
        /\ feedback.correctness = derived_verdict(feedback.errors)
        /\ feedback.learning_path =
               suggest_learning_path([i \in DOMAIN feedback.errors |-> feedback.errors[i].type],
                                     sql_concepts, hash_order)
        /\ (positive_places # {}) <=> (feedback.errors = <<>>)

\* a Report whose findings come from all four stages, two of them from the
\* semantic checks, and end with the finding of the gate or the executor
C30_Witness ==
    /\ analysed
    /\ {stage_of(feedback.errors[i]) : i \in DOMAIN feedback.errors} = 1..4
    /\ Cardinality({i \in DOMAIN feedback.errors : stage_of(feedback.errors[i]) = 2}) > 1
    /\ stage_of(feedback.errors[Len(feedback.errors)]) = 4
=============================================================================
